---- MODULE Spec2Model ----
(***************************************************************************)
(* Verification model of the agent action-orchestration layer of           *)
(* grok-4-cli: ParallelToolExecutor (executeParallel,                      *)
(* executeWithDependencies, executeSequential) over a tool-executing       *)
(* capability `execute(name, args)`.                                       *)
(*                                                                         *)
(* JavaScript is single threaded: a synchronous stretch of code is one     *)
(* atomic action; the points where other work can interleave are the       *)
(* settlements of the capability's promises and the promise reactions.     *)
(* Array and batch indices are 0-based, as in the source.                  *)
(***************************************************************************)
EXTENDS Integers, Sequences, FiniteSets, TLC

VARIABLES
    \* ---- the tool-executing capability (this.executor) and the batch
    toolCalls,        \* the toolCalls argument of the running method: [0..N-1 -> call]
    running,          \* capability: calls started and not yet finished
    started,          \* capability: order in which execute() was invoked
    capOutcome,       \* capability: call index -> how its promise settled
    \* ---- ParallelToolExecutor.executeParallel
    maxConcurrent,    \* this.maxConcurrent
    results,          \* const results = new Array(toolCalls.length)
    queue,            \* const queue: calls with their index, FIFO
    executing,        \* const executing = new Set(): promises, named by call index
    initialPromises,  \* the promises of the initial executeNext() invocations
    chained,          \* call index -> calls started by its finally's executeNext()
    awaited,          \* snapshot taken by the second Promise.all(executing)
    parPc,            \* position of executeParallel
    parReturned,      \* the array executeParallel resolved with
    outOfOrder,       \* history: a call settled while an earlier one was running
    \* ---- ParallelToolExecutor.executeWithDependencies
    depResults,       \* const results = new Map()
    executed,         \* const executed = new Set()
    batch,            \* the calls of the batch being awaited by Promise.all(batch)
    rounds,           \* history: number of rounds launched
    depPc,            \* position of executeWithDependencies
    depReturned,      \* the array executeWithDependencies resolved with
    depError,         \* the message of the Error it rejected with
    \* ---- ParallelToolExecutor.executeSequential
    seqResults,       \* const results = []
    seqPc,            \* position of executeSequential
    seqReturned,      \* the array executeSequential resolved with
    \* ---- ToolChain
    steps,            \* this.steps: [0..N-1 -> step]
    chainResults,     \* const results = new Map(): step index -> result
    chainPc,          \* position of ToolChain.execute
    chainReturned,    \* the array ToolChain.execute resolved with
    chainError,       \* the message of the Error it rejected with
    chainSkipped,     \* history: indices of the steps passed over by `continue`
    onResultCalls,    \* history: the invocations of the steps' onResult callbacks
    \* ---- TaskManager
    tasks,            \* this.tasks = new Map(): id -> Task
    taskOrder,        \* this.taskOrder: ids in insertion order
    nextId,           \* this.nextId
    lastCall,         \* history: the TaskManager method called last
    \* ---- ShellManager and its ShellSessions
    sessions,         \* this.sessions = new Map(): id -> ShellSession
    pendingCd,        \* _handleCd invocations awaiting fs.stat
    spawned,          \* the subprocesses spawned so far, in spawn order
    alive,            \* positions in `spawned` of the subprocesses not yet exited
    shellCalls,       \* history: number of execute/executeStreaming calls made
    established,      \* history: session id -> the path its last successful cd reported
    lastCd,           \* history: the cd that settled last and what it delivered
    sessionCount,     \* history: number of ShellSession objects constructed
    now,              \* Date.now()
    signals,          \* positions in `spawned` of the subprocesses sent SIGTERM
    emitted,          \* history: position in `spawned` -> the chunks it has written
    settled,          \* history: call number -> how the promise of the call settled
    registryOps,      \* history: number of getSession, kill and deleteSession calls made
    lastOp,           \* history: the registry call made last and what it returned
    streams,          \* the executeStreaming calls of ordinary commands, in call order
    \* ToolExecutor
    invocations,      \* the ToolExecutor.execute calls made so far and how far each got
    disk,             \* path -> what the file system holds there
    httpSent,         \* history: number of HTTP requests sent
    \* ---- AgentPlanner.executeParallel
    plannerPc,        \* position of executeParallel
    plannerMax,       \* const maxConcurrent
    plannerRunning,   \* const running = new Set()
    plannerCompleted, \* const completed = new Set()
    workers,          \* the initial executeNext() promises: where each chain is
    plannerStarted,   \* history: the ids passed to startTask, in order
    plannerProgress   \* what executeParallel resolved with

capVars == <<toolCalls, running, started, capOutcome>>

parVars == <<maxConcurrent, results, queue, executing, initialPromises, chained,
             awaited, parPc, parReturned, outOfOrder>>

depVars == <<depResults, executed, batch, rounds, depPc, depReturned, depError>>

seqVars == <<seqResults, seqPc, seqReturned>>

chainVars == <<steps, chainResults, chainPc, chainReturned, chainError,
               chainSkipped, onResultCalls>>

taskVars == <<tasks, taskOrder, nextId, lastCall>>

shellVars == <<sessions, pendingCd, spawned, alive, shellCalls, established,
               lastCd, sessionCount, now, signals, emitted, settled,
               registryOps, lastOp, streams>>

toolVars == <<invocations, disk, httpSent>>

plannerVars == <<plannerPc, plannerMax, plannerRunning, plannerCompleted, workers,
                 plannerStarted, plannerProgress>>

vars == <<capVars, parVars, depVars, seqVars, chainVars, taskVars, shellVars,
          toolVars, plannerVars>>

\* What each method leaves alone: the state of the other methods.
parOthers == <<depVars, seqVars, chainVars, taskVars, shellVars, toolVars,
    plannerVars>>

depOthers == <<parVars, seqVars, chainVars, taskVars, shellVars, toolVars,
    plannerVars>>

seqOthers == <<parVars, depVars, chainVars, taskVars, shellVars, toolVars,
    plannerVars>>

chainOthers == <<parVars, depVars, seqVars, taskVars, shellVars, toolVars,
    plannerVars>>

taskOthers == <<capVars, parVars, depVars, seqVars, chainVars, shellVars,
               toolVars,
    plannerVars>>

shellOthers == <<capVars, parVars, depVars, seqVars, chainVars, taskVars,
                toolVars,
    plannerVars>>

toolOthers == <<capVars, parVars, depVars, seqVars, chainVars, taskVars,
    plannerVars>>

plannerOthers == <<capVars, parVars, depVars, seqVars, chainVars, shellVars,
                  toolVars>>

(***************************************************************************)
(* Bounds of the model.                                                    *)
(***************************************************************************)
MaxParCalls == 4
MaxCap == 2
MaxDepCalls == 3
MaxDepEdges == 4
MaxSeqCalls == 4
MaxChainSteps == 3
MaxTasks == 2
MaxGenerated == 1
MaxShellCalls == 2
MaxRegistryOps == 2
MaxTime == 1
MaxChunks == 1
MaxToolCalls == 2
MaxPlanTasks == 3
MaxPlanEdges == 2
MaxPlanConcurrent == 2

(***************************************************************************)
(* Small helpers.                                                          *)
(***************************************************************************)
Min(a, b) == IF a < b THEN a ELSE b

NoCalls == [i \in {} |-> 0]

(***************************************************************************)
(* The tool-executing capability: anything exposing execute(name, args).   *)
(* Its promise is fulfilled with a result mapping (domain fields,          *)
(* {error: string} or {cancelled: true}) or rejected with an Error.        *)
(***************************************************************************)
ToolNames == <<"read_file", "write_file", "run_command">>

ToolNameAt(i) == ToolNames[(i % Len(ToolNames)) + 1]

\* The message of a failure of `call`.
FailureMessage(call) == [text |-> "tool failed", name |-> call.name, args |-> call.args]

NoError == [text |-> "none"]

Fulfilled(value) == [settled |-> "fulfilled", value |-> value]

Rejected(message) == [settled |-> "rejected", reason |-> [message |-> message]]

\* Every way execute(call.name, call.args) can settle.
CapabilityOutcomes(call) ==
    { Fulfilled([content |-> call.args]),
      Fulfilled([error |-> FailureMessage(call)]),
      Fulfilled([cancelled |-> TRUE]),
      Rejected(FailureMessage(call)) }

\* result.error is truthy
HasError(result) == "error" \in DOMAIN result

\* The call failed: its promise rejected or its result carries `error`.
CallFailed(outcome) ==
    \/ outcome.settled = "rejected"
    \/ outcome.settled = "fulfilled" /\ HasError(outcome.value)

(***************************************************************************)
(* ParallelToolExecutor.executeParallel                                    *)
(***************************************************************************)
DefaultMaxConcurrent == 5

\* new Array(n): n empty slots
EmptySlot == [empty |-> TRUE]

NewArray(n) == [i \in 0 .. n - 1 |-> EmptySlot]

\* A batch of n distinct calls.
ParBatch(n) == [i \in 0 .. n - 1 |-> [name |-> ToolNameAt(i), args |-> [path |-> i]]]

\* toolCalls.map((call, index) => ({ ...call, index }))
RECURSIVE IndexedQueue(_, _)
IndexedQueue(calls, i) ==
    IF i \notin DOMAIN calls THEN <<>>
    ELSE <<[name |-> calls[i].name, args |-> calls[i].args, index |-> i]>>
             \o IndexedQueue(calls, i + 1)

\* .then(result => { results[call.index] = { success: true, result, tool } })
ThenReaction(call, value) ==
    [handled |-> TRUE,
     entry |-> [success |-> TRUE, result |-> value, tool |-> call.name]]

\* Mutant of CatchReaction: the chain has no .catch, a rejection stays unhandled.
CatchReactionMissing(call, reason) == [handled |-> FALSE, entry |-> EmptySlot]

\* .catch(error => { results[call.index] = { success: false, error: error.message, tool } })
CatchReaction(call, reason) ==
    [handled |-> TRUE,
     entry |-> [success |-> FALSE, error |-> reason.message, tool |-> call.name]]

\* The reaction that runs for a settled call: .then on fulfilment, .catch on
\* rejection. `handled` tells whether the derived promise is fulfilled.
SettleReaction(call, outcome) ==
    IF outcome.settled = "fulfilled"
    THEN ThenReaction(call, outcome.value)
    ELSE CatchReaction(call, outcome.reason)

\* Mutant of StoreResult: entries are stored in completion order (a push).
StoreResultInCompletionOrder(res, call, entry) ==
    LET free == {k \in DOMAIN res : res[k] = EmptySlot}
    IN  IF free = {} THEN res
        ELSE [res EXCEPT ![CHOOSE k \in free : \A m \in free : k <= m] = entry]

\* results[call.index] = entry
StoreResult(res, call, entry) == [res EXCEPT ![call.index] = entry]

\* The scheduling state the closure executeNext works on; `chain` collects the
\* calls one invocation (with its nested invocations) has started.
SchedState(q, ex, run, log) ==
    [queue |-> q, executing |-> ex, running |-> run, started |-> log, chain |-> {}]

\* if (executing.size < this.maxConcurrent && queue.length > 0)
MayStartAnother(st, cap) == Cardinality(st.executing) < cap /\ st.queue # <<>>

\* const executeNext = async () => { ... }: the synchronous part of one
\* invocation, nested invocations included.
RECURSIVE ExecuteNext(_, _)
ExecuteNext(st, cap) ==
    IF st.queue = <<>> THEN st
    ELSE LET call == Head(st.queue)
             s1 == [st EXCEPT !.queue = Tail(@),
                              !.running = @ \cup {call.index},
                              !.started = Append(@, call.index),
                              !.executing = @ \cup {call.index},
                              !.chain = @ \cup {call.index}]
         IN  IF MayStartAnother(s1, cap) THEN ExecuteNext(s1, cap) ELSE s1

\* for (let i = 0; i < Math.min(this.maxConcurrent, toolCalls.length); i++)
\*     initialPromises.push(executeNext());
RECURSIVE InitialBatch(_, _, _, _)
InitialBatch(st, promises, k, cap) ==
    IF k = 0 THEN [st |-> st, promises |-> promises]
    ELSE LET s1 == ExecuteNext([st EXCEPT !.chain = {}], cap)
         IN  InitialBatch(s1, Append(promises, s1.chain), k - 1, cap)

\* Mutant of PromiseResolved: the finally callback does not return the promise
\* of executeNext(), so the promise of call i resolves when the callback has run.
PromiseResolvedAtFinally(i) == i \in DOMAIN chained

\* Whether the promise of call i has resolved: its finally callback ran and the
\* promise that callback returned (the executeNext() invocation) has resolved.
RECURSIVE PromiseResolved(_)
PromiseResolved(i) ==
    /\ i \in DOMAIN chained
    /\ \A j \in chained[i] : PromiseResolved(j)

\* The caller sets the cap (a public field) before a batch.
SetMaxConcurrent(c) ==
    /\ parPc = "idle"
    /\ maxConcurrent' = c
    /\ UNCHANGED <<toolCalls, results, queue, executing, initialPromises, chained,
                   awaited, parPc, parReturned, running, started, capOutcome,
                   outOfOrder,
                   parOthers>>

\* executeParallel(toolCalls) up to its first await.
ExecuteParallel(n) ==
    /\ parPc = "idle"
    /\ LET calls == ParBatch(n)
           st0 == SchedState(IndexedQueue(calls, 0), {}, {}, <<>>)
           run == InitialBatch(st0, <<>>, Min(maxConcurrent, n), maxConcurrent)
       IN  /\ toolCalls' = calls
           /\ results' = NewArray(n)
           /\ queue' = run.st.queue
           /\ executing' = run.st.executing
           /\ running' = run.st.running
           /\ started' = run.st.started
           /\ initialPromises' = run.promises
    /\ parPc' = "awaitInitial"
    /\ UNCHANGED <<maxConcurrent, chained, awaited, parReturned, capOutcome,
                   outOfOrder,
                   parOthers>>

\* The capability settles call i and the .then or .catch reaction runs. A
\* rejection no reaction handles rejects the promises awaited by
\* executeParallel, which then throws.
CallSettles(i, outcome) ==
    /\ i \in running
    /\ outcome \in CapabilityOutcomes(toolCalls[i])
    /\ running' = running \ {i}
    /\ capOutcome' = (i :> outcome) @@ capOutcome
    /\ outOfOrder' = (outOfOrder \/ \E j \in running : j < i)
    /\ LET call == [name |-> toolCalls[i].name, args |-> toolCalls[i].args, index |-> i]
           reaction == SettleReaction(call, outcome)
       IN  /\ results' = IF reaction.handled
                         THEN StoreResult(results, call, reaction.entry)
                         ELSE results
           /\ parPc' = IF ~reaction.handled /\ parPc \in {"awaitInitial", "awaitExecuting"}
                       THEN "threw"
                       ELSE parPc
    /\ UNCHANGED <<maxConcurrent, toolCalls, queue, executing, initialPromises,
                   chained, awaited, parReturned, started,
                   parOthers>>

\* The calls the finally reaction of a settled call starts: return executeNext()
FinallyNext(st, cap) == ExecuteNext(st, cap)

\* .finally(() => { executing.delete(promise); return executeNext(); })
Finally(i) ==
    /\ i \in executing
    /\ i \notin running
    /\ LET st0 == SchedState(queue, executing \ {i}, running, started)
           st == FinallyNext(st0, maxConcurrent)
       IN  /\ queue' = st.queue
           /\ executing' = st.executing
           /\ running' = st.running
           /\ started' = st.started
           /\ chained' = (i :> st.chain) @@ chained
    /\ UNCHANGED <<maxConcurrent, toolCalls, results, initialPromises, awaited,
                   parPc, parReturned, capOutcome, outOfOrder,
                   parOthers>>

\* await Promise.all(initialPromises) is over; Promise.all(executing) iterates
\* the set as it is now.
InitialResolved ==
    /\ parPc = "awaitInitial"
    /\ \A k \in 1 .. Len(initialPromises) :
           \A i \in initialPromises[k] : PromiseResolved(i)
    /\ awaited' = executing
    /\ parPc' = "awaitExecuting"
    /\ UNCHANGED <<maxConcurrent, toolCalls, results, queue, executing,
                   initialPromises, chained, parReturned, running, started, capOutcome,
                   outOfOrder,
                   parOthers>>

\* await Promise.all(executing) is over: return results
ParallelReturns ==
    /\ parPc = "awaitExecuting"
    /\ \A i \in awaited : PromiseResolved(i)
    /\ parReturned' = results
    /\ parPc' = "returned"
    /\ UNCHANGED <<maxConcurrent, toolCalls, results, queue, executing,
                   initialPromises, chained, awaited, running, started, capOutcome,
                   outOfOrder,
                   parOthers>>

ParInit ==
    /\ maxConcurrent = DefaultMaxConcurrent
    /\ results = NoCalls
    /\ queue = <<>>
    /\ executing = {}
    /\ initialPromises = <<>>
    /\ chained = NoCalls
    /\ awaited = {}
    /\ parPc = "idle"
    /\ parReturned = NoCalls
    /\ outOfOrder = FALSE

CapInit ==
    /\ toolCalls = NoCalls
    /\ running = {}
    /\ started = <<>>
    /\ capOutcome = NoCalls

NextParallel ==
    \/ \E c \in 1 .. MaxCap : SetMaxConcurrent(c)
    \/ \E n \in 0 .. MaxParCalls : ExecuteParallel(n)
    \/ \E i \in running : \E o \in CapabilityOutcomes(toolCalls[i]) : CallSettles(i, o)
    \/ \E i \in executing : Finally(i)
    \/ InitialResolved
    \/ ParallelReturns

(***************************************************************************)
(* ParallelToolExecutor.executeWithDependencies                            *)
(***************************************************************************)
\* throw new Error('Cannot execute tools: circular or missing dependencies')
CircularMessage == [text |-> "Cannot execute tools: circular or missing dependencies"]

Undefined == [undefined |-> TRUE]

\* results.get(index)
MapGet(map, key) == IF key \in DOMAIN map THEN map[key] ELSE Undefined

RECURSIVE EdgeCount(_, _)
EdgeCount(deps, i) ==
    IF i \notin DOMAIN deps THEN 0
    ELSE Cardinality(deps[i]) + EdgeCount(deps, i + 1)

\* The dependency lists of a batch of n calls: each a set of indices, where n
\* stands for an index that is not in the batch.
DependencyLists(n) ==
    {deps \in [0 .. n - 1 -> SUBSET (0 .. n)] : EdgeCount(deps, 0) <= MaxDepEdges}

\* A batch of calls {name, args, dependencies}.
DepBatch(n, deps) ==
    [i \in 0 .. n - 1 |->
        [name |-> ToolNameAt(i), args |-> [path |-> i], dependencies |-> deps[i]]]

\* Mutant of CanExecute: `some` in place of `every`.
CanExecuteSomeDependency(call, exd) ==
    \/ call.dependencies = {}
    \/ \E dep \in call.dependencies : dep \in exd

\* Mutant of CanExecute: the dependencies are not looked at.
CanExecuteAlways(call, exd) == TRUE

\* const canExecute = (call) => { ... }
CanExecute(call, exd) ==
    \/ call.dependencies = {}
    \/ \A dep \in call.dependencies : dep \in exd

\* toolCalls.forEach: the calls of one round, in index order
ReadySet(calls, exd) ==
    {index \in DOMAIN calls : index \notin exd /\ CanExecute(calls[index], exd)}

RECURSIVE AppendAscending(_, _)
AppendAscending(log, set) ==
    IF set = {} THEN log
    ELSE LET m == CHOOSE x \in set : \A y \in set : x <= y
         IN  AppendAscending(Append(log, m), set \ {m})

\* Mutant of DeadlockOutcome: the error is raised, and the results gathered so
\* far are handed to the caller with it.
DeadlockDeliversPartial(calls, res, run, log) ==
    [pc |-> "threw", batch |-> {}, running |-> run, started |-> log,
     returned |-> res, error |-> CircularMessage]

\* if (batch.length === 0) throw new Error(...)
DeadlockOutcome(calls, res, run, log) ==
    [pc |-> "threw", batch |-> {}, running |-> run, started |-> log,
     returned |-> NoCalls, error |-> CircularMessage]

\* One pass of `while (executed.size < toolCalls.length)` up to its await, or
\* the return after the loop.
WhileLoop(calls, res, exd, run, log) ==
    IF ~(Cardinality(exd) < Cardinality(DOMAIN calls))
    THEN [pc |-> "returned", batch |-> {}, running |-> run, started |-> log,
          returned |-> [index \in DOMAIN calls |-> MapGet(res, index)],
          error |-> NoError]
    ELSE LET ready == ReadySet(calls, exd)
         IN  IF ready = {}
             THEN DeadlockOutcome(calls, res, run, log)
             ELSE [pc |-> "awaitBatch", batch |-> ready, running |-> run \cup ready,
                   started |-> AppendAscending(log, ready),
                   returned |-> NoCalls, error |-> NoError]

\* executeWithDependencies(toolCalls) up to its first await
ExecuteWithDependencies(calls) ==
    /\ depPc = "idle"
    /\ LET step == WhileLoop(calls, NoCalls, {}, {}, <<>>)
       IN  /\ toolCalls' = calls
           /\ depResults' = NoCalls
           /\ executed' = {}
           /\ batch' = step.batch
           /\ rounds' = IF step.pc = "awaitBatch" THEN 1 ELSE 0
           /\ running' = step.running
           /\ started' = step.started
           /\ depPc' = step.pc
           /\ depReturned' = step.returned
           /\ depError' = step.error
    /\ UNCHANGED <<capOutcome, depOthers>>

\* What an executeCall whose execute() rejected does to its caller: it has no
\* handler, so Promise.all(batch) rejects and executeWithDependencies throws.
RejectionAborts(pc) == pc = "awaitBatch"

\* Mutant of ExecutedAdd: only a call whose result carries neither `error` nor
\* `cancelled` counts as executed.
ExecutedAddOnSuccess(exd, index, result) ==
    IF "error" \in DOMAIN result \/ "cancelled" \in DOMAIN result
    THEN exd
    ELSE exd \cup {index}

\* executed.add(index): the result is not looked at
ExecutedAdd(exd, index, result) == exd \cup {index}

\* const executeCall = async (call, index) => { ... } after its await: the
\* capability settles call i.
DepCallSettles(i, outcome) ==
    /\ depPc # "idle"
    /\ i \in running
    /\ outcome \in CapabilityOutcomes(toolCalls[i])
    /\ running' = running \ {i}
    /\ capOutcome' = (i :> outcome) @@ capOutcome
    /\ IF outcome.settled = "fulfilled"
       THEN /\ depResults' = (i :> outcome.value) @@ depResults
            /\ executed' = ExecutedAdd(executed, i, outcome.value)
            /\ UNCHANGED <<depPc, depError>>
       ELSE /\ UNCHANGED <<depResults, executed>>
            /\ IF RejectionAborts(depPc)
               THEN depPc' = "threw" /\ depError' = outcome.reason.message
               ELSE UNCHANGED <<depPc, depError>>
    /\ UNCHANGED <<toolCalls, started, batch, rounds, depReturned, depOthers>>

\* await Promise.all(batch) is over: the loop goes on
BatchResolved ==
    /\ depPc = "awaitBatch"
    /\ batch \subseteq executed
    /\ LET step == WhileLoop(toolCalls, depResults, executed, running, started)
       IN  /\ batch' = step.batch
           /\ rounds' = IF step.pc = "awaitBatch" THEN rounds + 1 ELSE rounds
           /\ running' = step.running
           /\ started' = step.started
           /\ depPc' = step.pc
           /\ depReturned' = step.returned
           /\ depError' = step.error
    /\ UNCHANGED <<toolCalls, capOutcome, depResults, executed, depOthers>>

DepInit ==
    /\ depResults = NoCalls
    /\ executed = {}
    /\ batch = {}
    /\ rounds = 0
    /\ depPc = "idle"
    /\ depReturned = NoCalls
    /\ depError = NoError

NextDependencies ==
    \/ /\ depPc = "idle"
       /\ \E n \in 0 .. MaxDepCalls : \E deps \in DependencyLists(n) :
              ExecuteWithDependencies(DepBatch(n, deps))
    \/ \E i \in running : \E o \in CapabilityOutcomes(toolCalls[i]) : DepCallSettles(i, o)
    \/ BatchResolved

(***************************************************************************)
(* ParallelToolExecutor.executeSequential                                  *)
(***************************************************************************)
\* results.push({ success: true, result, tool }) / the catch's
\* results.push({ success: false, error: error.message, tool })
SequentialEntry(call, outcome) ==
    IF outcome.settled = "fulfilled"
    THEN [success |-> TRUE, result |-> outcome.value, tool |-> call.name]
    ELSE [success |-> FALSE, error |-> outcome.reason.message, tool |-> call.name]

\* Mutant of StopsLoop: the catch block has no break.
StopsLoopNever(outcome) == FALSE

\* break; // Stop on first error
StopsLoop(outcome) == outcome.settled = "rejected"

\* executeSequential(toolCalls) up to its first await
ExecuteSequential(n) ==
    /\ seqPc = "idle"
    /\ toolCalls' = ParBatch(n)
    /\ seqResults' = <<>>
    /\ IF n = 0
       THEN /\ seqPc' = "returned"
            /\ seqReturned' = <<>>
            /\ UNCHANGED <<running, started>>
       ELSE /\ seqPc' = "awaitCall"
            /\ running' = {0}
            /\ started' = <<0>>
            /\ UNCHANGED seqReturned
    /\ UNCHANGED <<capOutcome, seqOthers>>

\* The awaited call i settles: its entry is pushed, and the loop goes on with
\* the next call, or ends.
SeqCallSettles(i, outcome) ==
    /\ seqPc = "awaitCall"
    /\ i \in running
    /\ outcome \in CapabilityOutcomes(toolCalls[i])
    /\ capOutcome' = (i :> outcome) @@ capOutcome
    /\ LET pushed == Append(seqResults, SequentialEntry(toolCalls[i], outcome))
       IN  /\ seqResults' = pushed
           /\ IF ~StopsLoop(outcome) /\ i + 1 \in DOMAIN toolCalls
              THEN /\ running' = {i + 1}
                   /\ started' = Append(started, i + 1)
                   /\ UNCHANGED <<seqPc, seqReturned>>
              ELSE /\ running' = {}
                   /\ seqPc' = "returned"
                   /\ seqReturned' = pushed
                   /\ UNCHANGED started
    /\ UNCHANGED <<toolCalls, seqOthers>>

SeqInit ==
    /\ seqResults = <<>>
    /\ seqPc = "idle"
    /\ seqReturned = <<>>

NextSequential ==
    \/ \E n \in 0 .. MaxSeqCalls : ExecuteSequential(n)
    \/ \E i \in running : \E o \in CapabilityOutcomes(toolCalls[i]) : SeqCallSettles(i, o)

(***************************************************************************)
(* ToolChain: add() and execute()                                          *)
(*                                                                         *)
(* A step's condition is a caller-supplied function of the results so far: *)
(* "none" is an absent condition, "never" one that returns false, and      *)
(* "previousRan" is results => results.has(index - 1).  A step's onResult  *)
(* is a callback that observes its arguments and returns.                  *)
(***************************************************************************)
Conditions == {"none", "never", "previousRan"}

\* step.condition(results)
ConditionHolds(step, index, res) ==
    CASE step.condition = "never" -> FALSE
      [] step.condition = "previousRan" -> (index - 1) \in DOMAIN res
      [] OTHER -> TRUE

SkipsStepNever(step, index, res) == FALSE

\* if (step.condition && !step.condition(results)) continue;
SkipsStep(step, index, res) ==
    step.condition # "none" /\ ~ConditionHolds(step, index, res)

\* Mutant of CallsOnResult: the callback is only called with a result that
\* passed the error check.
CallsOnResultAfterCheck(step, result) == step.onResult /\ ~HasError(result)

\* if (step.onResult) await step.onResult(result, results), ahead of the check
\* of result.error
CallsOnResult(step, result) == step.onResult

ChainAbortsNever(result) == FALSE

\* if (result.error) throw ...
ChainAborts(result) == HasError(result)

\* new Error(`Chain failed at step ${index + 1}: ${result.error}`).message
ChainFailedMessage(index, result) ==
    [text |-> "Chain failed at step", step |-> index + 1, error |-> result.error]

\* Array.from(results.values()): the values in insertion order, which is the
\* ascending order of the step indices.
RECURSIVE MapValues(_, _)
MapValues(res, n) ==
    IF n = 0 THEN <<>>
    ELSE IF (n - 1) \in DOMAIN res
         THEN Append(MapValues(res, n - 1), res[n - 1])
         ELSE MapValues(res, n - 1)

\* The for loop from step i up to its next await: steps whose condition fails
\* are passed over; the first other step is started, or the loop ends and
\* execute returns.
RECURSIVE ChainLoop(_, _, _, _)
ChainLoop(stps, i, res, skp) ==
    IF i \notin DOMAIN stps
    THEN [pc |-> "returned", skipped |-> skp, start |-> {},
          returned |-> MapValues(res, Cardinality(DOMAIN stps))]
    ELSE IF SkipsStep(stps[i], i, res)
         THEN ChainLoop(stps, i + 1, res, skp \cup {i})
         ELSE [pc |-> "awaitStep", skipped |-> skp, start |-> {i},
               returned |-> <<>>]

\* add(toolName, args, options)
ChainAdd(condition, onResult) ==
    /\ chainPc = "idle"
    /\ Cardinality(DOMAIN steps) < MaxChainSteps
    /\ LET n == Cardinality(DOMAIN steps)
       IN steps' = [i \in 0 .. n |->
                       IF i < n THEN steps[i]
                       ELSE [name |-> ToolNameAt(n), args |-> [path |-> n],
                             dependencies |-> <<>>, condition |-> condition,
                             onResult |-> onResult]]
    /\ UNCHANGED <<chainResults, chainPc, chainReturned, chainError,
                   chainSkipped, onResultCalls>>
    /\ UNCHANGED <<capVars, chainOthers>>

\* execute(), up to its first await (or to its return)
ChainExecute ==
    /\ chainPc = "idle"
    /\ LET loop == ChainLoop(steps, 0, NoCalls, {})
       IN /\ chainPc' = loop.pc
          /\ chainSkipped' = loop.skipped
          /\ chainReturned' = loop.returned
          /\ running' = loop.start
          /\ started' = IF loop.start = {} THEN <<>>
                        ELSE <<CHOOSE i \in loop.start : TRUE>>
    /\ chainResults' = NoCalls
    /\ capOutcome' = NoCalls
    /\ UNCHANGED <<steps, chainError, onResultCalls, toolCalls>>
    /\ UNCHANGED chainOthers

\* `await this.executor.execute(step.name, step.args)` settles: execute()
\* resumes and runs to its next await, its return or its throw.
ChainStepSettles(i, outcome) ==
    /\ chainPc = "awaitStep"
    /\ i \in running
    /\ outcome \in CapabilityOutcomes(steps[i])
    /\ capOutcome' = (i :> outcome) @@ capOutcome
    /\ IF outcome.settled = "rejected"
       THEN /\ chainPc' = "threw"
            /\ chainError' = outcome.reason.message
            /\ running' = {}
            /\ UNCHANGED <<chainResults, chainReturned, chainSkipped,
                           onResultCalls, started>>
       ELSE LET result == outcome.value
                res == (i :> result) @@ chainResults
                calls == IF CallsOnResult(steps[i], result)
                         THEN Append(onResultCalls,
                                     [index |-> i, result |-> result,
                                      results |-> res])
                         ELSE onResultCalls
                loop == ChainLoop(steps, i + 1, res, chainSkipped)
            IN /\ chainResults' = res
               /\ onResultCalls' = calls
               /\ IF ChainAborts(result)
                  THEN /\ chainPc' = "threw"
                       /\ chainError' = ChainFailedMessage(i, result)
                       /\ running' = {}
                       /\ UNCHANGED <<chainReturned, chainSkipped, started>>
                  ELSE /\ chainPc' = loop.pc
                       /\ chainSkipped' = loop.skipped
                       /\ chainReturned' = loop.returned
                       /\ running' = loop.start
                       /\ started' = IF loop.start = {} THEN started
                                     ELSE Append(started,
                                                 CHOOSE k \in loop.start : TRUE)
                       /\ UNCHANGED chainError
    /\ UNCHANGED <<steps, toolCalls>>
    /\ UNCHANGED chainOthers

ChainInit ==
    /\ steps = NoCalls
    /\ chainResults = NoCalls
    /\ chainPc = "idle"
    /\ chainReturned = <<>>
    /\ chainError = NoError
    /\ chainSkipped = {}
    /\ onResultCalls = <<>>

NextChain ==
    \/ \E condition \in Conditions, onResult \in BOOLEAN :
           ChainAdd(condition, onResult)
    \/ ChainExecute
    \/ \E i \in running : \E outcome \in CapabilityOutcomes(steps[i]) :
           ChainStepSettles(i, outcome)

(***************************************************************************)
(* Task and TaskManager                                                    *)
(*                                                                         *)
(* Ids and statuses are strings; the empty string is the absent (falsy)    *)
(* value of a string option, as for JavaScript's `||`.  Results and errors *)
(* are records, Null being JavaScript's null.                              *)
(***************************************************************************)
TaskStatus ==
    [PENDING |-> "pending", IN_PROGRESS |-> "in_progress",
     COMPLETED |-> "completed", FAILED |-> "failed", BLOCKED |-> "blocked"]

Statuses == {TaskStatus.PENDING, TaskStatus.IN_PROGRESS, TaskStatus.COMPLETED,
             TaskStatus.FAILED, TaskStatus.BLOCKED}

Null == [null |-> TRUE]

NoTasks == [id \in {} |-> Null]

\* `task_${n}`
TaskIdNames == <<"task_1", "task_2", "task_3", "task_4", "task_5", "task_6">>

GeneratedId(n) == TaskIdNames[n]

\* The explicit ids callers pass; "task_1" is also an id the manager generates.
ExplicitIds == {"A", "task_1"}

\* An id no task ever has.
GhostId == "ghost"

\* The dependency lists callers pass.
DependencyChoices == {<<>>, <<"A">>, <<"A", "task_1">>, <<GhostId>>}

TaskFailure == [message |-> "task failed"]

\* new Task(id, description, options)
NewTask(id, description, options) ==
    [id |-> id,
     description |-> description,
     activeForm |-> IF options.activeForm # "" THEN options.activeForm
                    ELSE description \o "...",
     metadata |-> options.metadata,
     status |-> IF options.status # "" THEN options.status ELSE TaskStatus.PENDING,
     dependencies |-> options.dependencies,
     result |-> Null,
     error |-> Null]

\* Task.start()
TaskStart(task) == [task EXCEPT !.status = TaskStatus.IN_PROGRESS]

\* Task.complete(result)
TaskComplete(task, result) ==
    [task EXCEPT !.status = TaskStatus.COMPLETED, !.result = result]

\* Task.fail(error)
TaskFail(task, error) ==
    [task EXCEPT !.status = TaskStatus.FAILED, !.error = error]

\* Task.block(reason)
TaskBlock(task, reason) ==
    [task EXCEPT !.status = TaskStatus.BLOCKED, !.error = reason]

\* The for loop of Task.canExecute over this.dependencies, from position k.
RECURSIVE DependenciesMet(_, _, _)
DependenciesMet(deps, k, tsks) ==
    IF k > Len(deps) THEN TRUE
    ELSE IF deps[k] \notin DOMAIN tsks
            \/ tsks[deps[k]].status # TaskStatus.COMPLETED
         THEN FALSE
         ELSE DependenciesMet(deps, k + 1, tsks)

TaskCanExecuteIgnoringMissing(task, tsks) ==
    /\ task.status = TaskStatus.PENDING
    /\ \A k \in 1 .. Len(task.dependencies) :
           task.dependencies[k] \in DOMAIN tsks =>
               tsks[task.dependencies[k]].status = TaskStatus.COMPLETED

\* Task.canExecute(taskManager)
TaskCanExecute(task, tsks) ==
    IF task.status # TaskStatus.PENDING THEN FALSE
    ELSE DependenciesMet(task.dependencies, 1, tsks)

\* TaskManager.getAllTasks()
GetAllTasks(tsks, order) == [k \in 1 .. Len(order) |-> tsks[order[k]]]

\* The for loop of getNextExecutableTask over this.taskOrder, from position k.
RECURSIVE NextExecutableFrom(_, _, _)
NextExecutableFrom(tsks, order, k) ==
    IF k > Len(order) THEN Null
    ELSE IF TaskCanExecute(tsks[order[k]], tsks) THEN tsks[order[k]]
         ELSE NextExecutableFrom(tsks, order, k + 1)

GetFirstPendingTask(tsks, order) ==
    IF \E k \in 1 .. Len(order) : tsks[order[k]].status = TaskStatus.PENDING
    THEN tsks[order[CHOOSE k \in 1 .. Len(order) :
                  /\ tsks[order[k]].status = TaskStatus.PENDING
                  /\ \A j \in 1 .. k - 1 :
                         tsks[order[j]].status # TaskStatus.PENDING]]
    ELSE Null

\* TaskManager.getNextExecutableTask()
GetNextExecutableTask(tsks, order) == NextExecutableFrom(tsks, order, 1)

\* all.filter(t => t.status === status).length
CountStatus(all, status) ==
    Cardinality({k \in DOMAIN all : all[k].status = status})

\* Math.round((completed / total) * 100), total > 0
RoundPercent(completed, total) == (200 * completed + total) \div (2 * total)

\* TaskManager.getProgress()
GetProgress(tsks, order) ==
    LET all == GetAllTasks(tsks, order)
        completed == CountStatus(all, TaskStatus.COMPLETED)
    IN [total |-> Len(all),
        completed |-> completed,
        inProgress |-> CountStatus(all, TaskStatus.IN_PROGRESS),
        failed |-> CountStatus(all, TaskStatus.FAILED),
        blocked |-> CountStatus(all, TaskStatus.BLOCKED),
        pending |-> CountStatus(all, TaskStatus.PENDING),
        percentage |-> IF Len(all) > 0 THEN RoundPercent(completed, Len(all))
                       ELSE 0]

\* The manager's fields as one value.
Manager(tsks, order, next) == [tasks |-> tsks, taskOrder |-> order, nextId |-> next]

\* TaskManager.addTask(description, options), on the manager value mgr
AddTaskTo(mgr, description, options) ==
    LET id == IF options.id # "" THEN options.id ELSE GeneratedId(mgr.nextId)
        next == IF options.id # "" THEN mgr.nextId ELSE mgr.nextId + 1
        task == NewTask(id, description, options)
    IN Manager((id :> task) @@ mgr.tasks, Append(mgr.taskOrder, id), next)

\* The switch of TaskManager.updateTaskStatus
SwitchStatus(task, status, data) ==
    CASE status = TaskStatus.IN_PROGRESS -> TaskStart(task)
      [] status = TaskStatus.COMPLETED -> TaskComplete(task, data.result)
      [] status = TaskStatus.FAILED -> TaskFail(task, data.error)
      [] status = TaskStatus.BLOCKED -> TaskBlock(task, data.reason)
      [] OTHER -> [task EXCEPT !.status = status]

\* TaskManager.toJSON().tasks
ToJSON(tsks, order) ==
    [k \in 1 .. Len(order) |->
        [id |-> tsks[order[k]].id,
         description |-> tsks[order[k]].description,
         activeForm |-> tsks[order[k]].activeForm,
         status |-> tsks[order[k]].status,
         dependencies |-> tsks[order[k]].dependencies,
         result |-> tsks[order[k]].result,
         error |-> tsks[order[k]].error,
         metadata |-> tsks[order[k]].metadata]]

\* The results a task is completed with: none (null), 0 and 1.
Results == {Null, [value |-> 0], [value |-> 1]}

\* if (value): null and 0 are falsy
Truthy(value) == value \notin {Null, [value |-> 0]}

\* The for loop of fromJSON over data.tasks, from position k.
RECURSIVE ImportFrom(_, _, _)
ImportFrom(mgr, data, k) ==
    IF k > Len(data) THEN mgr
    ELSE LET taskData == data[k]
             added == AddTaskTo(mgr, taskData.description,
                                [id |-> taskData.id,
                                 activeForm |-> taskData.activeForm,
                                 status |-> taskData.status,
                                 dependencies |-> taskData.dependencies,
                                 metadata |-> taskData.metadata])
             id == added.taskOrder[Len(added.taskOrder)]
             task == [added.tasks[id] EXCEPT
                          !.result = IF Truthy(taskData.result)
                                     THEN taskData.result ELSE @,
                          !.error = IF Truthy(taskData.error)
                                    THEN taskData.error ELSE @]
         IN ImportFrom(Manager((id :> task) @@ added.tasks, added.taskOrder,
                               added.nextId),
                       data, k + 1)

\* A document exported by another manager.
ImportedDocument ==
    <<[id |-> "B", description |-> "build", activeForm |-> "build...",
       status |-> TaskStatus.COMPLETED, dependencies |-> <<>>, result |-> Null,
       error |-> Null, metadata |-> {}],
      [id |-> "task_1", description |-> "build", activeForm |-> "build...",
       status |-> TaskStatus.PENDING, dependencies |-> <<"B">>, result |-> Null,
       error |-> Null, metadata |-> {}]>>

\* The ids a caller may name: those of the tasks, and one that no task has.
KnownIds == DOMAIN tasks \cup {GhostId}

\* addTask(description, {id, dependencies, activeForm, metadata})
AddTask(id, dependencies, activeForm, metadata) ==
    /\ Len(taskOrder) < MaxTasks
    /\ id = "" => nextId <= MaxGenerated
    /\ LET mgr == AddTaskTo(Manager(tasks, taskOrder, nextId), "build",
                            [id |-> id, status |-> "", activeForm |-> activeForm,
                             dependencies |-> dependencies, metadata |-> metadata])
       IN /\ tasks' = mgr.tasks
          /\ taskOrder' = mgr.taskOrder
          /\ nextId' = mgr.nextId
    /\ lastCall' = "addTask"
    /\ UNCHANGED taskOthers

\* updateTaskStatus(id, status, data)
UpdateTaskStatus(id, status, data) ==
    /\ tasks' = IF id \in DOMAIN tasks
                THEN [tasks EXCEPT ![id] = SwitchStatus(tasks[id], status, data)]
                ELSE tasks
    /\ lastCall' = "updateTaskStatus"
    /\ UNCHANGED <<taskOrder, nextId>>
    /\ UNCHANGED taskOthers

\* startTask(id)
StartTask(id) == UpdateTaskStatus(id, TaskStatus.IN_PROGRESS, [none |-> TRUE])

\* completeTask(id, result): result defaults to null
CompleteTask(id, result) ==
    UpdateTaskStatus(id, TaskStatus.COMPLETED, [result |-> result])

\* failTask(id, error)
FailTask(id, error) == UpdateTaskStatus(id, TaskStatus.FAILED, [error |-> error])

\* clear()
ClearTasks ==
    /\ tasks' = NoTasks
    /\ taskOrder' = <<>>
    /\ lastCall' = "clear"
    /\ UNCHANGED nextId
    /\ UNCHANGED taskOthers

\* fromJSON(data)
FromJSON(data) ==
    /\ LET mgr == ImportFrom(Manager(NoTasks, <<>>, nextId), data, 1)
       IN /\ tasks' = mgr.tasks
          /\ taskOrder' = mgr.taskOrder
          /\ nextId' = mgr.nextId
    /\ lastCall' = "fromJSON"
    /\ UNCHANGED taskOthers

TaskInit ==
    /\ tasks = NoTasks
    /\ taskOrder = <<>>
    /\ nextId = 1
    /\ lastCall = "constructor"

NextTasks ==
    \/ \E id \in ExplicitIds \cup {""}, dependencies \in DependencyChoices :
           AddTask(id, dependencies, "", {})
    \/ \E id \in KnownIds : StartTask(id)
    \/ \E id \in KnownIds : CompleteTask(id, Null)
    \/ \E id \in KnownIds : FailTask(id, TaskFailure)
    \/ \E id \in KnownIds :
           \/ UpdateTaskStatus(id, TaskStatus.PENDING, [none |-> TRUE])
           \/ UpdateTaskStatus(id, TaskStatus.BLOCKED, [reason |-> TaskFailure])
    \/ ClearTasks
    \/ \E data \in {ImportedDocument, ToJSON(tasks, taskOrder)} : FromJSON(data)

\* Tasks with every kind of field value, exported and imported again.
NextExport ==
    \/ \E id \in {"A", ""}, dependencies \in {<<>>, <<"A">>},
          activeForm \in {"", "building"}, metadata \in {{}, {"priority"}} :
           AddTask(id, dependencies, activeForm, metadata)
    \/ \E id \in DOMAIN tasks, result \in Results : CompleteTask(id, result)
    \/ \E id \in DOMAIN tasks : FailTask(id, TaskFailure)
    \/ FromJSON(ToJSON(tasks, taskOrder))

(***************************************************************************)
(* ShellSession and ShellManager: the cd special case and ordinary         *)
(* commands.                                                               *)
(*                                                                         *)
(* A path is the sequence of its segments after the leading "/": <<>> is   *)
(* "/", <<"a", "..">> is "/a/..".  The file system is a fixed tree.  The   *)
(* ordinary command issued is the directory-reporting command `pwd`.       *)
(***************************************************************************)
Directories == {<<>>, <<"a">>, <<"a", "b">>}

Files == {<<"f">>}

\* process.cwd() when the sessions are created
ProcessCwd == <<"a">>

\* process.env.HOME
HomeDirectory == <<"a">>

DefaultSessionId == "default"

\* The sessionId option: "" is an omitted id.
SessionIds == {"", "work"}

\* The targets of `cd <target>` that callers issue: "/a/b", "/a/b/..", "/f",
\* "b", "..", "x" (no directory entry is named x) and "~/b".
Targets ==
    {[kind |-> "absolute", segments |-> <<"a", "b">>],
     [kind |-> "absolute", segments |-> <<"a", "b", "..">>],
     [kind |-> "absolute", segments |-> <<"f">>],
     [kind |-> "relative", segments |-> <<"b">>],
     [kind |-> "relative", segments |-> <<"..">>],
     [kind |-> "relative", segments |-> <<"x">>],
     [kind |-> "home", segments |-> <<"b">>]}

Parent(path) == IF path = <<>> THEN <<>> ELSE SubSeq(path, 1, Len(path) - 1)

\* path.resolve applied to an absolute path: "..", taken lexically, removes
\* the segment before it.
RECURSIVE Normalize(_)
Normalize(path) ==
    IF path = <<>> THEN <<>>
    ELSE LET front == Normalize(SubSeq(path, 1, Len(path) - 1))
             last == path[Len(path)]
         IN IF last = ".." THEN Parent(front) ELSE Append(front, last)

\* path.resolve(cwd, target)
PathResolve(cwd, segments) == Normalize(cwd \o segments)

\* The file system's own walk along a path: every segment is looked up in the
\* directory reached so far.
RECURSIVE Walk(_, _)
Walk(at, path) ==
    IF path = <<>> THEN at
    ELSE IF at.kind # "directory" THEN [kind |-> "error", path |-> at.path]
    ELSE LET name == path[1]
             to == IF name = ".." THEN Parent(at.path) ELSE Append(at.path, name)
             kind == IF to \in Directories THEN "directory"
                     ELSE IF to \in Files THEN "file" ELSE "error"
         IN Walk([kind |-> kind, path |-> to], SubSeq(path, 2, Len(path)))

\* fs.stat(path): "directory", "file", or "error" when stat throws
Stat(path) == Walk([kind |-> "directory", path |-> <<>>], path)

\* The directory a subprocess spawned with this cwd runs in, which is what
\* `pwd` reports.
WorkingDirectory(cwd) == Stat(cwd).path

\* targetDir after the ~ expansion
ExpandHome(target) ==
    IF target.kind = "home"
    THEN [kind |-> "absolute", segments |-> HomeDirectory \o target.segments]
    ELSE target

NewCwdFromRoot(cwd, target) == ExpandHome(target).segments

\* const newCwd = path.isAbsolute(targetDir) ? targetDir
\*                                           : path.resolve(this.cwd, targetDir)
NewCwd(cwd, target) ==
    IF ExpandHome(target).kind = "absolute"
    THEN ExpandHome(target).segments
    ELSE PathResolve(cwd, ExpandHome(target).segments)

\* What _handleCd returns once fs.stat has settled.
CdResult(newCwd, target) ==
    CASE Stat(newCwd).kind = "directory" ->
             [stdout |-> [path |-> newCwd], stderr |-> [text |-> ""],
              exitCode |-> 0, duration |-> 0]
      [] Stat(newCwd).kind = "file" ->
             [stdout |-> [text |-> ""],
              stderr |-> [text |-> "cd: not a directory", target |-> target],
              exitCode |-> 1, duration |-> 0]
      [] OTHER ->
             [stdout |-> [text |-> ""],
              stderr |-> [text |-> "cd: no such file or directory", target |-> target],
              exitCode |-> 1, duration |-> 0]

\* new Map()
NoProcesses == [processId \in {} |-> [none |-> TRUE]]

\* new ShellSession(id); `object` tells the session objects apart that were
\* created under the same id.
NewSession(id, object) ==
    [id |-> id, cwd |-> ProcessCwd, history |-> <<>>,
     backgroundProcesses |-> NoProcesses, object |-> object]

\* ShellManager.getSession(id): the sessions map after the call; `count` is
\* the number of session objects constructed before it
GetSession(map, id, count) ==
    LET sessionId == IF id # "" THEN id ELSE DefaultSessionId
    IN IF sessionId \notin DOMAIN map
       THEN (sessionId :> NewSession(sessionId, count + 1)) @@ map
       ELSE map

\* The number of session objects constructed once getSession(id) has returned.
SessionCountAfter(map, id, count) ==
    IF (IF id # "" THEN id ELSE DefaultSessionId) \notin DOMAIN map
    THEN count + 1 ELSE count

SessionIdOf(id) == IF id # "" THEN id ELSE DefaultSessionId

\* The cwd option of exec() and spawn()
SpawnCwd(session) == session.cwd

\* options.cwd of execute and executeStreaming: absent, or one directory
CwdOptions == {<<>>, << <<"a", "b">> >>, << <<>> >>}

\* `bg_${Date.now()}`
ProcessId(time) == [bg |-> time]

\* A process id that is never registered.
GhostProcessId == [ghost |-> TRUE]

\* The session object whose execute() spawned subprocess k is still the
\* manager's session of that id (the handlers of k act on that object).
SessionLives(k) ==
    /\ spawned[k].session \in DOMAIN sessions
    /\ sessions[spawned[k].session].object = spawned[k].object

HistoryOwnerDefault(process) == DefaultSessionId

\* this.history.push(historyEntry): `this` is the session whose execute
\* spawned the subprocess
HistoryOwner(process) == process.session

\* The code the 'exit' event of subprocess k carries: null after a signal.
ExitCode(k) == IF k \in signals THEN Null ELSE [code |-> 0]

\* The history entry pushed when a subprocess exits; `chunks` is what it wrote.
HistoryEntry(process, chunks) ==
    [command |-> process.command, cwd |-> process.cwd,
     stdout |-> IF process.command = "pwd"
                THEN [path |-> WorkingDirectory(process.cwd)]
                ELSE [chunks |-> chunks],
     exitCode |-> 0,
     streaming |-> process.via = "executeStreaming"]

\* What execute resolves with from the completion callback of exec().
ExecuteResult(process, chunks) ==
    IF process.background
    THEN [stdout |-> [text |-> ""], stderr |-> [text |-> ""], exitCode |-> Null,
          duration |-> 0, background |-> TRUE, pid |-> process.call]
    ELSE [stdout |-> HistoryEntry(process, chunks).stdout,
          stderr |-> [text |-> ""], exitCode |-> 0]

\* The record registered for a background subprocess.
BackgroundRecord(k, command, time) ==
    [process |-> k, command |-> command, startTime |-> time,
     stdout |-> <<>>, stderr |-> <<>>, completed |-> FALSE, exitCode |-> Null]

LookupAnyProcess(registry, processId) ==
    IF processId \in DOMAIN registry THEN <<processId>>
    ELSE IF DOMAIN registry # {} THEN <<CHOOSE id \in DOMAIN registry : TRUE>>
    ELSE <<>>

\* const bgProcess = this.backgroundProcesses.get(processId), as the list of
\* the ids found
LookupProcess(registry, processId) ==
    IF processId \in DOMAIN registry THEN <<processId>> ELSE <<>>

\* this.backgroundProcesses.delete(processId)
DeleteKey(registry, processId) ==
    [id \in DOMAIN registry \ {processId} |-> registry[id]]

DeleteThrowsNever(id) == FALSE

\* if (id === this.defaultSessionId) throw ...
DeleteThrows(id) == id = DefaultSessionId

SignalledByDeleteNone(session) == {}

\* for (const processId of session.backgroundProcesses.keys())
\*     session.killBackgroundProcess(processId): the subprocesses signalled
SignalledByDelete(session) ==
    {session.backgroundProcesses[id].process : id \in DOMAIN session.backgroundProcesses}

\* manager.execute / manager.executeStreaming of `cd <target>`, up to the
\* await of fs.stat in _handleCd
ExecuteCd(id, target, via) ==
    /\ shellCalls < MaxShellCalls
    /\ shellCalls' = shellCalls + 1
    /\ sessions' = GetSession(sessions, id, sessionCount)
    /\ LET session == GetSession(sessions, id, sessionCount)[SessionIdOf(id)]
       IN pendingCd' = pendingCd \cup
              {[call |-> shellCalls + 1, session |-> SessionIdOf(id), via |-> via,
                target |-> target, previousCwd |-> session.cwd,
                newCwd |-> NewCwd(session.cwd, target)]}
    /\ sessionCount' = SessionCountAfter(sessions, id, sessionCount)
    /\ UNCHANGED <<spawned, alive, established, lastCd>>
    /\ UNCHANGED <<now, signals, emitted, settled, registryOps, lastOp, streams>>
    /\ UNCHANGED shellOthers

\* fs.stat settles: _handleCd runs to its return, and executeStreaming passes
\* the stdout to onData
CdSettles(cd) ==
    /\ cd \in pendingCd
    /\ pendingCd' = pendingCd \ {cd}
    /\ LET result == CdResult(cd.newCwd, cd.target)
       IN /\ sessions' = IF result.exitCode = 0
                         THEN [sessions EXCEPT ![cd.session].cwd = cd.newCwd]
                         ELSE sessions
          /\ established' = IF result.exitCode = 0
                            THEN (cd.session :> cd.newCwd) @@ established
                            ELSE established
          /\ lastCd' = [call |-> cd.call, session |-> cd.session, via |-> cd.via,
                        target |-> cd.target, previousCwd |-> cd.previousCwd,
                        returned |-> IF cd.via = "execute" THEN result
                                     ELSE [exitCode |-> result.exitCode,
                                           duration |-> result.duration],
                        chunks |-> IF cd.via = "execute" THEN <<>>
                                   ELSE <<[type |-> "stdout",
                                           data |-> result.stdout]>>]
    /\ UNCHANGED <<spawned, alive, shellCalls>>
    /\ UNCHANGED <<sessionCount, now, signals, emitted, settled, registryOps,
                   lastOp, streams>>
    /\ UNCHANGED shellOthers

\* manager.execute / manager.executeStreaming of `pwd`: the subprocess is
\* spawned
ExecuteCommand(id, via, optionsCwd) ==
    /\ shellCalls < MaxShellCalls
    /\ shellCalls' = shellCalls + 1
    /\ sessions' = GetSession(sessions, id, sessionCount)
    /\ sessionCount' = SessionCountAfter(sessions, id, sessionCount)
    /\ LET session == GetSession(sessions, id, sessionCount)[SessionIdOf(id)]
       IN spawned' = Append(spawned,
              [call |-> shellCalls + 1, session |-> SessionIdOf(id), via |-> via,
               cwd |-> SpawnCwd(session),
               after |-> IF SessionIdOf(id) \in DOMAIN established
                         THEN <<established[SessionIdOf(id)]>> ELSE <<>>,
               command |-> "pwd", background |-> FALSE, processId |-> Null,
               object |-> session.object, optionsCwd |-> optionsCwd])
    /\ alive' = alive \cup {Len(spawned) + 1}
    /\ emitted' = (Len(spawned) + 1 :> <<>>) @@ emitted
    /\ UNCHANGED <<pendingCd, established, lastCd>>
    /\ UNCHANGED <<now, signals, settled, registryOps, lastOp, streams>>
    /\ UNCHANGED shellOthers

\* manager.execute(command, {sessionId: id, background: true}): the
\* subprocess is spawned and its record registered under `bg_${Date.now()}`
LaunchBackground(id) ==
    /\ shellCalls < MaxShellCalls
    /\ shellCalls' = shellCalls + 1
    /\ sessionCount' = SessionCountAfter(sessions, id, sessionCount)
    /\ LET map == GetSession(sessions, id, sessionCount)
           session == map[SessionIdOf(id)]
           k == Len(spawned) + 1
       IN /\ spawned' = Append(spawned,
                 [call |-> shellCalls + 1, session |-> SessionIdOf(id),
                  via |-> "execute", cwd |-> SpawnCwd(session),
                  after |-> IF SessionIdOf(id) \in DOMAIN established
                            THEN <<established[SessionIdOf(id)]>> ELSE <<>>,
                  command |-> "server", background |-> TRUE,
                  processId |-> ProcessId(now), object |-> session.object])
          /\ sessions' = [map EXCEPT ![SessionIdOf(id)].backgroundProcesses =
                              (ProcessId(now) :> BackgroundRecord(k, "server", now))
                                  @@ @]
          /\ alive' = alive \cup {k}
          /\ emitted' = (k :> <<>>) @@ emitted
    /\ UNCHANGED <<pendingCd, established, lastCd>>
    /\ UNCHANGED <<now, signals, settled, registryOps, lastOp, streams>>

\* manager.execute(command, {sessionId: id, background: true})
ExecuteBackground(id) ==
    /\ LaunchBackground(id)
    /\ UNCHANGED shellOthers

\* the number of chunks the subprocesses have written so far
ChunksEmitted(output) ==
    LET Count[ks \in SUBSET DOMAIN output] ==
            IF ks = {} THEN 0
            ELSE LET k == CHOOSE x \in ks : TRUE
                 IN Len(output[k]) + Count[ks \ {k}]
    IN Count[DOMAIN output]

\* a background subprocess writes a chunk to stdout or stderr: the 'data'
\* handler appends it to the record found under the subprocess's id
ProcessWrites(k, stream) ==
    /\ k \in alive
    /\ spawned[k].background
    /\ ChunksEmitted(emitted) < MaxChunks
    /\ LET chunk == [process |-> k, n |-> Len(emitted[k]) + 1, stream |-> stream]
           id == spawned[k].processId
       IN /\ emitted' = [emitted EXCEPT ![k] = Append(@, chunk)]
          /\ sessions' =
                 IF SessionLives(k)
                    /\ id \in DOMAIN sessions[spawned[k].session].backgroundProcesses
                 THEN IF stream = "stdout"
                      THEN [sessions EXCEPT
                               ![spawned[k].session].backgroundProcesses[id].stdout =
                                   Append(@, chunk)]
                      ELSE [sessions EXCEPT
                               ![spawned[k].session].backgroundProcesses[id].stderr =
                                   Append(@, chunk)]
                 ELSE sessions
    /\ UNCHANGED <<pendingCd, spawned, alive, shellCalls, established, lastCd>>
    /\ UNCHANGED <<sessionCount, now, signals, settled, registryOps, lastOp, streams>>
    /\ UNCHANGED shellOthers

\* the subprocess exits: the 'exit' handler of a background subprocess marks
\* the record found under its id, and the completion callback of exec() pushes
\* the history entry and resolves the call
ProcessExits(k) ==
    /\ k \in alive
    /\ alive' = alive \ {k}
    /\ LET id == spawned[k].processId
           marked ==
               IF spawned[k].background
                  /\ SessionLives(k)
                  /\ id \in DOMAIN sessions[spawned[k].session].backgroundProcesses
               THEN [sessions EXCEPT
                        ![spawned[k].session].backgroundProcesses[id] =
                            [@ EXCEPT !.exitCode = ExitCode(k), !.completed = TRUE]]
               ELSE sessions
       IN sessions' = IF SessionLives(k)
                      THEN [marked EXCEPT ![HistoryOwner(spawned[k])].history =
                               Append(@, HistoryEntry(spawned[k], emitted[k]))]
                      ELSE marked
    /\ settled' = (spawned[k].call :>
                      [state |-> "resolved",
                       value |-> ExecuteResult(spawned[k], emitted[k])]) @@ settled
    /\ UNCHANGED <<pendingCd, spawned, shellCalls, established, lastCd>>
    /\ UNCHANGED <<sessionCount, now, signals, emitted, registryOps, lastOp, streams>>
    /\ UNCHANGED shellOthers

\* Date.now() advances.
Tick ==
    /\ now < MaxTime
    /\ now' = now + 1
    /\ UNCHANGED <<sessions, pendingCd, spawned, alive, shellCalls, established,
                   lastCd, sessionCount, signals, emitted, settled, registryOps,
                   lastOp, streams>>
    /\ UNCHANGED shellOthers

\* manager.getSession(id)
ManagerGetSession(id) ==
    /\ registryOps < MaxRegistryOps
    /\ registryOps' = registryOps + 1
    /\ sessions' = GetSession(sessions, id, sessionCount)
    /\ sessionCount' = SessionCountAfter(sessions, id, sessionCount)
    /\ lastOp' = [n |-> registryOps + 1, op |-> "getSession", id |-> id,
                  threw |-> FALSE,
                  returned |-> GetSession(sessions, id, sessionCount)[SessionIdOf(id)]]
    /\ UNCHANGED <<pendingCd, spawned, alive, shellCalls, established, lastCd,
                   now, signals, emitted, settled, streams>>
    /\ UNCHANGED shellOthers

\* session.killBackgroundProcess(processId) on the manager's session `id`: what
\* it does to the sessions and the subprocesses
KillRegistered(id, processId) ==
    /\ registryOps < MaxRegistryOps
    /\ id \in DOMAIN sessions
    /\ registryOps' = registryOps + 1
    /\ LET registry == sessions[id].backgroundProcesses
           found == LookupProcess(registry, processId)
       IN IF found # <<>>
          THEN /\ signals' = signals \cup {registry[found[1]].process}
               /\ sessions' = [sessions EXCEPT ![id].backgroundProcesses =
                                   DeleteKey(registry, found[1])]
               /\ lastOp' = [n |-> registryOps + 1, op |-> "killBackgroundProcess",
                             id |-> id, processId |-> processId, threw |-> FALSE,
                             returned |-> TRUE]
          ELSE /\ lastOp' = [n |-> registryOps + 1, op |-> "killBackgroundProcess",
                             id |-> id, processId |-> processId, threw |-> FALSE,
                             returned |-> FALSE]
               /\ UNCHANGED <<sessions, signals>>
    /\ UNCHANGED <<pendingCd, spawned, alive, shellCalls, established, lastCd,
                   sessionCount, now, emitted, settled, streams>>

\* session.killBackgroundProcess(processId) called on its own
KillBackgroundProcess(id, processId) ==
    /\ KillRegistered(id, processId)
    /\ UNCHANGED shellOthers

\* manager.deleteSession(id)
DeleteSession(id) ==
    /\ registryOps < MaxRegistryOps
    /\ registryOps' = registryOps + 1
    /\ IF DeleteThrows(id)
       THEN /\ lastOp' = [n |-> registryOps + 1, op |-> "deleteSession", id |-> id,
                          threw |-> TRUE, returned |-> FALSE]
            /\ UNCHANGED <<sessions, signals>>
       ELSE IF id \in DOMAIN sessions
            THEN /\ signals' = signals \cup SignalledByDelete(sessions[id])
                 /\ sessions' = [other \in DOMAIN sessions \ {id} |-> sessions[other]]
                 /\ lastOp' = [n |-> registryOps + 1, op |-> "deleteSession",
                               id |-> id, threw |-> FALSE, returned |-> TRUE]
            ELSE /\ lastOp' = [n |-> registryOps + 1, op |-> "deleteSession",
                               id |-> id, threw |-> FALSE, returned |-> FALSE]
                 /\ UNCHANGED <<sessions, signals>>
    /\ UNCHANGED <<pendingCd, spawned, alive, shellCalls, established, lastCd,
                   sessionCount, now, emitted, settled, streams>>
    /\ UNCHANGED shellOthers

ShellInit ==
    /\ sessions = (DefaultSessionId :> NewSession(DefaultSessionId, 1))
    /\ pendingCd = {}
    /\ spawned = <<>>
    /\ alive = {}
    /\ shellCalls = 0
    /\ established = [id \in {} |-> <<>>]
    /\ lastCd = [call |-> 0]
    /\ sessionCount = 1
    /\ now = 0
    /\ signals = {}
    /\ emitted = [k \in {} |-> <<>>]
    /\ settled = [call \in {} |-> [state |-> "pending"]]
    /\ registryOps = 0
    /\ lastOp = [n |-> 0]
    /\ streams = <<>>

\* The exit codes of a subprocess that was not signalled.
ExitCodes == {[code |-> 0], [code |-> 1]}

\* the stdout and stderr chunks passed to onData so far
DataChunks(chunks) == SelectSeq(chunks, LAMBDA chunk : chunk.type # "error")

\* manager.executeStreaming(command, onData, {sessionId: id}) of a command
\* other than cd: spawn and the arming of the timeout timer; `spawns` tells
\* whether the subprocess could be started
ExecuteStreaming(id, spawns) ==
    /\ shellCalls < MaxShellCalls
    /\ shellCalls' = shellCalls + 1
    /\ sessions' = GetSession(sessions, id, sessionCount)
    /\ sessionCount' = SessionCountAfter(sessions, id, sessionCount)
    /\ streams' = Append(streams,
           [call |-> shellCalls + 1, session |-> SessionIdOf(id),
            cwd |-> SpawnCwd(GetSession(sessions, id, sessionCount)[SessionIdOf(id)]),
            phase |-> IF spawns THEN "running" ELSE "spawnFailed",
            timer |-> "armed", signalled |-> FALSE, chunks |-> <<>>])
    /\ UNCHANGED <<pendingCd, spawned, alive, established, lastCd, now, signals,
                   emitted, settled, registryOps, lastOp>>
    /\ UNCHANGED shellOthers

\* the 'data' handlers of executeStreaming: a chunk of stdout or stderr is
\* passed to onData
StreamData(c, type) ==
    /\ streams[c].phase = "running"
    /\ Len(DataChunks(streams[c].chunks)) < MaxChunks
    /\ streams' = [streams EXCEPT ![c].chunks = Append(@, [type |-> type])]
    /\ UNCHANGED <<sessions, pendingCd, spawned, alive, shellCalls, established,
                   lastCd, sessionCount, now, signals, emitted, settled,
                   registryOps, lastOp>>
    /\ UNCHANGED shellOthers

\* the 'exit' handler of executeStreaming: the history entry is pushed and the
\* call resolves with {exitCode: code, duration}; code is null after a signal
StreamExit(c, code) ==
    /\ streams[c].phase = "running"
    /\ code \in (IF streams[c].signalled THEN {Null} ELSE ExitCodes)
    /\ streams' = [streams EXCEPT ![c].phase = "exited"]
    /\ sessions' = [sessions EXCEPT ![streams[c].session].history =
                       Append(@, [command |-> "stream", cwd |-> streams[c].cwd,
                                  streaming |-> TRUE,
                                  stdout |-> [chunks |-> DataChunks(streams[c].chunks)],
                                  exitCode |-> code])]
    /\ settled' = (streams[c].call :>
                      [state |-> "resolved",
                       value |-> [exitCode |-> code, duration |-> 0]]) @@ settled
    /\ UNCHANGED <<pendingCd, spawned, alive, shellCalls, established, lastCd,
                   sessionCount, now, signals, emitted, registryOps, lastOp>>
    /\ UNCHANGED shellOthers

\* the 'error' handler of executeStreaming (the subprocess could not be
\* started): an error chunk is passed to onData and the call is rejected
StreamError(c) ==
    /\ streams[c].phase = "spawnFailed"
    /\ streams' = [streams EXCEPT ![c].phase = "errored",
                                  ![c].chunks = Append(@, [type |-> "error"])]
    /\ settled' = (streams[c].call :>
                      [state |-> "rejected", reason |-> [error |-> "spawn"]]) @@ settled
    /\ UNCHANGED <<sessions, pendingCd, spawned, alive, shellCalls, established,
                   lastCd, sessionCount, now, signals, emitted, registryOps, lastOp>>
    /\ UNCHANGED shellOthers

\* the timer armed by executeStreaming fires, `timeout` ms after the call:
\* SIGTERM for the subprocess (without effect unless it is running) and an
\* error chunk for onData
StreamTimeout(c) ==
    /\ streams[c].timer = "armed"
    /\ streams' = [streams EXCEPT ![c].timer = "fired",
                                  ![c].signalled = (streams[c].phase = "running"),
                                  ![c].chunks = Append(@, [type |-> "error"])]
    /\ UNCHANGED <<sessions, pendingCd, spawned, alive, shellCalls, established,
                   lastCd, sessionCount, now, signals, emitted, settled,
                   registryOps, lastOp>>
    /\ UNCHANGED shellOthers

\* The session ids deleteSession is called with; no session is named "ghost".
DeletedIds == {DefaultSessionId, "work", "ghost"}

\* The process ids killBackgroundProcess is called with.
KilledIds == {ProcessId(time) : time \in 0 .. MaxTime} \cup {GhostProcessId}

\* One session's background-process registry: launches, output, exits and
\* kills on the default session.
NextRegistry ==
    \/ ExecuteBackground("")
    \/ \E k \in alive, stream \in {"stdout", "stderr"} : ProcessWrites(k, stream)
    \/ \E k \in alive : ProcessExits(k)
    \/ Tick
    \/ \E processId \in KilledIds :
           KillBackgroundProcess(DefaultSessionId, processId)

\* The session manager: sessions are created, used for background launches
\* and deleted.
NextManager ==
    \/ \E id \in SessionIds : ManagerGetSession(id)
    \/ \E id \in SessionIds : ExecuteBackground(id)
    \/ \E k \in alive : ProcessExits(k)
    \/ Tick
    \/ \E id \in DOMAIN sessions, processId \in KilledIds :
           KillBackgroundProcess(id, processId)
    \/ \E id \in DeletedIds : DeleteSession(id)

\* Streaming and plain commands on the manager's sessions.
NextStreaming ==
    \/ \E id \in SessionIds, spawns \in BOOLEAN : ExecuteStreaming(id, spawns)
    \/ \E c \in DOMAIN streams, type \in {"stdout", "stderr"} : StreamData(c, type)
    \/ \E c \in DOMAIN streams, code \in ExitCodes \cup {Null} : StreamExit(c, code)
    \/ \E c \in DOMAIN streams : StreamError(c)
    \/ \E c \in DOMAIN streams : StreamTimeout(c)
    \/ \E id \in SessionIds : ExecuteCommand(id, "execute", <<>>)
    \/ \E k \in alive : ProcessExits(k)

\* Every kind of call on the sessions of one manager.
NextSessions ==
    \/ /\ shellCalls < MaxShellCalls
       /\ \E id \in SessionIds, via \in {"execute", "executeStreaming"} :
              ExecuteCd(id, [kind |-> "relative", segments |-> <<"b">>], via)
    \/ \E cd \in pendingCd : CdSettles(cd)
    \/ \E id \in SessionIds, via \in {"execute", "executeStreaming"} :
           ExecuteCommand(id, via, <<>>)
    \/ \E id \in SessionIds : ExecuteBackground(id)
    \/ \E k \in alive : ProcessWrites(k, "stdout")
    \/ \E k \in alive : ProcessExits(k)
    \/ \E id \in DOMAIN sessions : KillBackgroundProcess(id, ProcessId(now))

NextShell ==
    \/ /\ shellCalls < MaxShellCalls
       /\ \E id \in SessionIds, target \in Targets,
             via \in {"execute", "executeStreaming"} : ExecuteCd(id, target, via)
    \/ \E cd \in pendingCd : CdSettles(cd)
    \/ \E id \in SessionIds, via \in {"execute", "executeStreaming"},
          optionsCwd \in CwdOptions : ExecuteCommand(id, via, optionsCwd)
    \/ \E k \in alive : ProcessExits(k)

(***************************************************************************)
(* Specifications: one per method of ParallelToolExecutor, one per class   *)
(* otherwise.                                                              *)
(***************************************************************************)
(***************************************************************************)
(* ToolExecutor: the tools that ask for approval before they act.          *)
(***************************************************************************)
ToolPaths == {"p"}

Absent == [kind |-> "absent"]

Directory == [kind |-> "directory"]

File(content) == [kind |-> "file", content |-> content]

\* The tools whose method starts with approval.requestApproval.
ApprovalTools ==
    {"read_file", "write_file", "edit_file", "list_directory", "create_directory",
     "delete_file", "run_command", "kill_background_process", "http_request"}

FileTools ==
    {"read_file", "write_file", "edit_file", "list_directory", "create_directory",
     "delete_file"}

\* The arguments the tools are called with.
ToolArgs(name) ==
    IF name \in FileTools
    THEN {[path |-> path, content |-> "b", search |-> "a", replace |-> "b"] :
              path \in ToolPaths}
    ELSE IF name = "run_command"
    THEN {[command |-> "server", background |-> TRUE]}
    ELSE IF name = "kill_background_process"
    THEN {[processId |-> processId] : processId \in {ProcessId(0), GhostProcessId}}
    ELSE {[url |-> "u"]}

CancelsNever(approved) == FALSE

\* if (!approved) return { cancelled: true };
Cancels(approved) == ~approved

Cancelled == [cancelled |-> TRUE]

\* ToolExecutor.execute's catch: return { error: error.message }
Caught(message) == [error |-> message]

\* What the file tools leave on the disk `d` once approved.
DiskAfter(name, args, d) ==
    LET at == d[args.path]
    IN  IF name = "write_file" /\ at.kind # "directory"
        THEN [d EXCEPT ![args.path] = File(args.content)]
        ELSE IF name = "edit_file" /\ at.kind = "file"
        THEN [d EXCEPT ![args.path] =
                 File(IF at.content = args.search THEN args.replace ELSE at.content)]
        ELSE IF name = "create_directory" /\ at.kind = "absent"
        THEN [d EXCEPT ![args.path] = Directory]
        ELSE IF name = "delete_file"
        THEN [d EXCEPT ![args.path] = Absent]
        ELSE d

\* What the file tools and http_request return once approved.
ToolResult(name, args, d) ==
    IF name = "http_request" THEN [status |-> 200]
    ELSE LET at == d[args.path]
         IN  IF name = "read_file"
             THEN IF at.kind = "file" THEN [content |-> at.content]
                  ELSE Caught("read")
             ELSE IF name = "write_file"
             THEN IF at.kind # "directory" THEN [success |-> TRUE, path |-> args.path]
                  ELSE Caught("write")
             ELSE IF name = "edit_file"
             THEN IF at.kind = "file"
                  THEN [success |-> TRUE,
                        replacements |-> IF at.content = args.search THEN 1 ELSE 0]
                  ELSE Caught("read")
             ELSE IF name = "list_directory"
             THEN IF at.kind = "directory" THEN [items |-> <<>>]
                  ELSE Caught("readdir")
             ELSE IF name = "create_directory"
             THEN IF at.kind # "file" THEN [success |-> TRUE, path |-> args.path]
                  ELSE Caught("mkdir")
             ELSE [success |-> TRUE, deleted |-> args.path]

\* toolExecutor.execute(name, args), up to the await of requestApproval;
\* runCommand reads the default session's cwd for the prompt first
ToolExecute(name, args) ==
    /\ Len(invocations) < MaxToolCalls
    /\ invocations' = Append(invocations,
           [name |-> name, args |-> args, state |-> "awaitingApproval"])
    /\ sessions' = IF name = "run_command"
                   THEN GetSession(sessions, "", sessionCount) ELSE sessions
    /\ sessionCount' = IF name = "run_command"
                       THEN SessionCountAfter(sessions, "", sessionCount)
                       ELSE sessionCount
    /\ UNCHANGED <<pendingCd, spawned, alive, shellCalls, established, lastCd,
                   now, signals, emitted, settled, registryOps, lastOp, streams>>
    /\ UNCHANGED <<disk, httpSent>>
    /\ UNCHANGED toolOthers

\* the invocation t once requestApproval has returned `approved`
Decided(t, approved, state, result) ==
    [invocations EXCEPT ![t] =
        [name |-> @.name, args |-> @.args, state |-> state,
         approved |-> approved,
         call |-> IF @.name = "run_command" THEN shellCalls + 1 ELSE 0,
         result |-> result]]

\* requestApproval returns `approved` to invocation t, and the tool runs up to
\* its return, or up to the await of shellManager.execute
ApprovalReturns(t, approved) ==
    LET name == invocations[t].name
        args == invocations[t].args
    IN  /\ invocations[t].state = "awaitingApproval"
        /\ IF Cancels(approved)
           THEN /\ invocations' = Decided(t, approved, "returned", Cancelled)
                /\ UNCHANGED <<disk, httpSent, shellVars>>
           ELSE IF name = "run_command"
           THEN /\ LaunchBackground("")
                /\ invocations' = Decided(t, approved, "running", Null)
                /\ UNCHANGED <<disk, httpSent>>
           ELSE IF name = "kill_background_process"
           THEN /\ KillRegistered(DefaultSessionId, args.processId)
                /\ invocations' =
                       Decided(t, approved, "returned", [success |-> lastOp'.returned])
                /\ UNCHANGED <<disk, httpSent>>
           ELSE /\ invocations' =
                       Decided(t, approved, "returned", ToolResult(name, args, disk))
                /\ disk' = IF name \in FileTools THEN DiskAfter(name, args, disk)
                           ELSE disk
                /\ httpSent' = IF name = "http_request" THEN httpSent + 1 ELSE httpSent
                /\ UNCHANGED shellVars
        /\ UNCHANGED toolOthers

\* shellManager.execute has settled: runCommand returns its result
RunCommandReturns(t) ==
    /\ invocations[t].state = "running"
    /\ invocations[t].call \in DOMAIN settled
    /\ invocations' = [invocations EXCEPT ![t].state = "returned",
                                          ![t].result = settled[invocations[t].call].value]
    /\ UNCHANGED <<disk, httpSent, shellVars>>
    /\ UNCHANGED toolOthers

ToolInit ==
    /\ invocations = <<>>
    /\ disk = [path \in ToolPaths |-> File("a")]
    /\ httpSent = 0

NextTools ==
    \/ \E name \in ApprovalTools : \E args \in ToolArgs(name) : ToolExecute(name, args)
    \/ \E t \in DOMAIN invocations, approved \in BOOLEAN : ApprovalReturns(t, approved)
    \/ \E t \in DOMAIN invocations : RunCommandReturns(t)
    \/ \E k \in alive : ProcessExits(k)

(***************************************************************************)
(* AgentPlanner.createPlan and AgentPlanner.executeParallel                *)
(***************************************************************************)
\* const maxConcurrent = options.maxConcurrent || 3 falls back to this
DefaultPlannerConcurrent == 3

\* The plans of n tasks handed to createPlan: task k depends on the tasks whose
\* positions are in deps[k]; position n + 1 stands for an id no task has.
PlanDependencies(n) ==
    {deps \in [1 .. n -> SUBSET (1 .. n + 1)] : EdgeCount(deps, 1) <= MaxPlanEdges}

PlanIdAt(n, d) == IF d <= n THEN GeneratedId(d) ELSE GhostId

\* The dependencies option of task k of a plan, in ascending position.
PlanDependencyList(n, set) ==
    LET order == AppendAscending(<<>>, set)
    IN  [j \in 1 .. Len(order) |-> PlanIdAt(n, order[j])]

\* for (const task of options.tasks) this.taskManager.addTask(...), from task k
RECURSIVE AddPlanFrom(_, _, _, _)
AddPlanFrom(mgr, n, deps, k) ==
    IF k > n THEN mgr
    ELSE AddPlanFrom(AddTaskTo(mgr, "build",
                               [id |-> "", status |-> "", activeForm |-> "",
                                dependencies |-> PlanDependencyList(n, deps[k]),
                                metadata |-> {}]),
                     n, deps, k + 1)

\* createPlan(request, {tasks})
CreatePlan(n, deps) ==
    /\ plannerPc = "idle"
    /\ taskOrder = <<>>
    /\ n >= 1
    /\ LET mgr == AddPlanFrom(Manager(tasks, taskOrder, nextId), n, deps, 1)
       IN  /\ tasks' = mgr.tasks
           /\ taskOrder' = mgr.taskOrder
           /\ nextId' = mgr.nextId
    /\ lastCall' = "addTask"
    /\ UNCHANGED <<plannerVars, plannerOthers>>

\* options.maxConcurrent || 3: an absent option and 0 are falsy
PlannerConcurrency(options) ==
    IF options # <<>> /\ options[1] # 0 THEN options[1] ELSE DefaultPlannerConcurrent

\* The options callers pass to executeParallel.
PlannerOptions == {<<>>} \cup {<<n>> : n \in 0 .. MaxPlanConcurrent}

\* How an executor call can end: resolved with a result, rejected with an
\* Error, or rejected with a value that has no `message` to read.
ExecutorOutcomes == {Fulfilled(Null), Rejected("task failed"), [settled |-> "rejected", reason |-> Null]}

\* A chain of executeNext() calls: awaiting the executor on a task, resolved
\* (its last executeNext found nothing to run), or rejected.
AtExecutor(id) == [at |-> "executor", task |-> id]

ChainResolved == [at |-> "resolved", task |-> ""]

ChainRejected == [at |-> "rejected", task |-> ""]

\* Mutant of ExecuteNextPick: any pending task is taken, its dependencies are
\* not looked at.
ExecuteNextPickPending(tsks, order, run, done) ==
    LET eligible == {k \in 1 .. Len(order) :
                        /\ order[k] \notin run \cup done
                        /\ tsks[order[k]].status = TaskStatus.PENDING}
    IN  IF eligible = {} THEN 0 ELSE CHOOSE k \in eligible : \A j \in eligible : k <= j

\* The for loop of executeNext: the position in taskOrder of the first task
\* that is neither running nor completed and can execute; 0 when there is none.
ExecuteNextPick(tsks, order, run, done) ==
    LET eligible == {k \in 1 .. Len(order) :
                        /\ order[k] \notin run \cup done
                        /\ TaskCanExecute(tsks[order[k]], tsks)}
    IN  IF eligible = {} THEN 0 ELSE CHOOSE k \in eligible : \A j \in eligible : k <= j

\* The planner's state as one value.
Planner(tsks, run, done, chains, log) ==
    [tasks |-> tsks, running |-> run, completed |-> done, workers |-> chains,
     started |-> log]

\* executeNext() of chain w up to its await of the executor, or to its end
PlannerExecuteNext(pl, order, w) ==
    LET k == ExecuteNextPick(pl.tasks, order, pl.running, pl.completed)
    IN  IF k = 0
        THEN [pl EXCEPT !.workers = (w :> ChainResolved) @@ @]
        ELSE [pl EXCEPT !.tasks[order[k]] = TaskStart(@),
                        !.running = @ \cup {order[k]},
                        !.workers = (w :> AtExecutor(order[k])) @@ @,
                        !.started = Append(@, order[k])]

\* for (let i = 0; i < maxConcurrent; i++) initialPromises.push(executeNext())
RECURSIVE PlannerInitialBatch(_, _, _, _)
PlannerInitialBatch(pl, order, i, max) ==
    IF ~(i < max) THEN pl
    ELSE PlannerInitialBatch(PlannerExecuteNext(pl, order, i), order, i + 1, max)

\* The try/catch/finally of executeNext after the executor settled task id
AfterExecutor(pl, id, outcome) ==
    IF outcome.settled = "fulfilled"
    THEN [pl EXCEPT !.tasks[id] = TaskComplete(@, outcome.value),
                    !.completed = @ \cup {id},
                    !.running = @ \ {id}]
    ELSE IF outcome.reason = Null
    THEN [pl EXCEPT !.running = @ \ {id}]
    ELSE [pl EXCEPT !.tasks[id] = TaskFail(@, outcome.reason.message),
                    !.completed = @ \cup {id},
                    !.running = @ \ {id}]

\* Mutant of TriesMore: a chain ends with the task it ran.
TriesMoreNever(run, max) == FALSE

\* if (running.size < maxConcurrent)
TriesMore(run, max) == Cardinality(run) < max

\* executeParallel(executor, options) up to await Promise.all(initialPromises)
PlannerExecuteParallel(options) ==
    /\ plannerPc = "idle"
    /\ LET max == PlannerConcurrency(options)
           pl == PlannerInitialBatch(Planner(tasks, {}, {}, <<>>, <<>>), taskOrder, 0, max)
       IN  /\ plannerMax' = max
           /\ tasks' = pl.tasks
           /\ plannerRunning' = pl.running
           /\ plannerCompleted' = pl.completed
           /\ workers' = pl.workers
           /\ plannerStarted' = pl.started
    /\ plannerPc' = "awaitInitial"
    /\ lastCall' = "updateTaskStatus"
    /\ UNCHANGED <<taskOrder, nextId, plannerProgress, plannerOthers>>

\* The executor settles the task chain w awaits; the chain goes on to its next
\* await, or ends.
ExecutorSettles(w, outcome) ==
    /\ plannerPc # "idle"
    /\ w \in DOMAIN workers
    /\ workers[w].at = "executor"
    /\ LET id == workers[w].task
           after == AfterExecutor(Planner(tasks, plannerRunning, plannerCompleted,
                                          workers, plannerStarted), id, outcome)
           pl == IF outcome.settled = "rejected" /\ outcome.reason = Null
                 THEN [after EXCEPT !.workers = (w :> ChainRejected) @@ @]
                 ELSE IF TriesMore(after.running, plannerMax)
                 THEN PlannerExecuteNext(after, taskOrder, w)
                 ELSE [after EXCEPT !.workers = (w :> ChainResolved) @@ @]
       IN  /\ tasks' = pl.tasks
           /\ plannerRunning' = pl.running
           /\ plannerCompleted' = pl.completed
           /\ workers' = pl.workers
           /\ plannerStarted' = pl.started
    /\ lastCall' = "updateTaskStatus"
    /\ UNCHANGED <<taskOrder, nextId, plannerPc, plannerMax, plannerProgress, plannerOthers>>

\* await Promise.all(initialPromises) is over: return this.taskManager.getProgress()
PlannerReturns ==
    /\ plannerPc = "awaitInitial"
    /\ \A w \in DOMAIN workers : workers[w] = ChainResolved
    /\ plannerPc' = "returned"
    /\ plannerProgress' = GetProgress(tasks, taskOrder)
    /\ UNCHANGED <<taskVars, plannerMax, plannerRunning, plannerCompleted, workers,
                   plannerStarted, plannerOthers>>

\* Promise.all(initialPromises) rejects with the first chain that rejected
PlannerThrows ==
    /\ plannerPc = "awaitInitial"
    /\ \E w \in DOMAIN workers : workers[w] = ChainRejected
    /\ plannerPc' = "threw"
    /\ UNCHANGED <<taskVars, plannerMax, plannerRunning, plannerCompleted, workers,
                   plannerStarted, plannerProgress, plannerOthers>>

PlannerInit ==
    /\ plannerPc = "idle"
    /\ plannerMax = DefaultPlannerConcurrent
    /\ plannerRunning = {}
    /\ plannerCompleted = {}
    /\ workers = <<>>
    /\ plannerStarted = <<>>
    /\ plannerProgress = Null

NextPlanner ==
    \/ \E n \in 1 .. MaxPlanTasks : \E deps \in PlanDependencies(n) : CreatePlan(n, deps)
    \/ \E options \in PlannerOptions : PlannerExecuteParallel(options)
    \/ \E w \in DOMAIN workers, outcome \in ExecutorOutcomes : ExecutorSettles(w, outcome)
    \/ PlannerReturns
    \/ PlannerThrows

Init == CapInit /\ ParInit /\ DepInit /\ SeqInit /\ ChainInit /\ TaskInit
        /\ ShellInit /\ ToolInit /\ PlannerInit

SpecPlanner == Init /\ [][NextPlanner]_vars

SpecParallel == Init /\ [][NextParallel]_vars

\* executeParallel with every invocation of the capability terminating and
\* every reaction and continuation that is ready being run.
SpecParallelFair ==
    /\ Init
    /\ [][NextParallel]_vars
    /\ WF_vars(\E i \in running : \E o \in CapabilityOutcomes(toolCalls[i]) :
                   CallSettles(i, o))
    /\ WF_vars(\E i \in executing : Finally(i))
    /\ WF_vars(InitialResolved)
    /\ WF_vars(ParallelReturns)

SpecDependencies == Init /\ [][NextDependencies]_vars

\* executeWithDependencies with every invocation of the capability
\* terminating and the loop continuing when its batch has resolved.
SpecDependenciesFair ==
    /\ Init
    /\ [][NextDependencies]_vars
    /\ WF_vars(\E i \in running : \E o \in CapabilityOutcomes(toolCalls[i]) :
                   DepCallSettles(i, o))
    /\ WF_vars(BatchResolved)

SpecSequential == Init /\ [][NextSequential]_vars

SpecChain == Init /\ [][NextChain]_vars

SpecTasks == Init /\ [][NextTasks]_vars

SpecShell == Init /\ [][NextShell]_vars

SpecRegistry == Init /\ [][NextRegistry]_vars

SpecManager == Init /\ [][NextManager]_vars

SpecStreaming == Init /\ [][NextStreaming]_vars

SpecTools == Init /\ [][NextTools]_vars

SpecSessions == Init /\ [][NextSessions]_vars

SpecExport == Init /\ [][NextExport]_vars

(***************************************************************************)
(* Properties of executeParallel, checked under SpecParallel.              *)
(***************************************************************************)
BatchSize == Cardinality(DOMAIN toolCalls)

\* How often execute() was invoked for call i.
TimesStarted(i) == Cardinality({k \in 1 .. Len(started) : started[k] = i})

\* C1: during executeParallel, at every instant the number of calls started on
\* the capability and not yet finished is at most the cap maxConcurrent.
C1_AtMostCapInFlight == Cardinality(running) <= maxConcurrent

\* C2: executeParallel returns an array of length N whose i-th entry is the
\* outcome of the i-th input call (its tool name and that call's own result or
\* failure message), whatever the completion order.
C2_ResultsAlignedByIndex ==
    parPc = "returned" =>
        /\ DOMAIN parReturned = DOMAIN toolCalls
        /\ \A i \in DOMAIN toolCalls :
               /\ i \in DOMAIN capOutcome
               /\ parReturned[i] # EmptySlot
               /\ parReturned[i].tool = toolCalls[i].name
               /\ IF capOutcome[i].settled = "fulfilled"
                  THEN /\ parReturned[i].success
                       /\ parReturned[i].result = capOutcome[i].value
                  ELSE /\ ~parReturned[i].success
                       /\ parReturned[i].error = capOutcome[i].reason.message

\* Three calls returned, one of them having settled before an earlier call.
C2_Witness ==
    /\ parPc = "returned"
    /\ BatchSize >= 3
    /\ outOfOrder

\* C3: a failing call never cancels or blocks its siblings: executeParallel
\* never raises, a call left in the queue always has an executing call that
\* will pull it, and at the return every call was started once and has its own
\* entry.
C3_FailureIsolation ==
    /\ parPc # "threw"
    /\ (parPc # "idle" /\ queue # <<>>) => executing # {}
    /\ parPc = "returned" =>
           \A i \in DOMAIN toolCalls :
               /\ TimesStarted(i) = 1
               /\ parReturned[i] # EmptySlot
               /\ parReturned[i].tool = toolCalls[i].name

\* With cap 1 the first call rejected, and the second call was still run and
\* has a success entry in the returned array.
C3_Witness ==
    /\ parPc = "returned"
    /\ maxConcurrent = 1
    /\ BatchSize >= 2
    /\ capOutcome[0].settled = "rejected"
    /\ ~parReturned[0].success
    /\ parReturned[1].success

\* C4: in the array returned by executeParallel the entry of a failed call (its
\* promise rejected, or its result carries `error`) is a failure entry:
\* success = false with the failure message.
C4_FailedCallsAreFailureEntries ==
    parPc = "returned" =>
        \A i \in DOMAIN toolCalls :
            (i \in DOMAIN capOutcome /\ CallFailed(capOutcome[i])) =>
                /\ parReturned[i] # EmptySlot
                /\ ~parReturned[i].success
                /\ parReturned[i].error = FailureMessage(toolCalls[i])

(***************************************************************************)
(* Properties of executeWithDependencies, checked under SpecDependencies.  *)
(***************************************************************************)
\* The indices call i depends on in one or more steps (an index that is not in
\* the batch has no dependencies of its own).
RECURSIVE DependencyClosure(_, _, _)
DependencyClosure(calls, set, k) ==
    IF k = 0 THEN set
    ELSE DependencyClosure(calls,
             set \cup UNION {calls[j].dependencies : j \in set \cap DOMAIN calls},
             k - 1)

TransitiveDependencies(calls, i) ==
    DependencyClosure(calls, calls[i].dependencies, Cardinality(DOMAIN calls))

OnCycle(calls, i) == i \in TransitiveDependencies(calls, i)

\* Call i is on, or depends directly or transitively on, a dependency cycle or
\* an index that is not in the batch.
Stuck(calls, i) ==
    \/ OnCycle(calls, i)
    \/ \E j \in TransitiveDependencies(calls, i) :
           j \notin DOMAIN calls \/ OnCycle(calls, j)

StuckCalls == {i \in DOMAIN toolCalls : Stuck(toolCalls, i)}

Finished(i) == i \in DOMAIN capOutcome

\* [A(deps=[]), B(deps=[0]), C(deps=[1,0])]
ExampleChain == DepBatch(3, (0 :> {}) @@ (1 :> {0}) @@ (2 :> {1, 0}))

\* [A(deps=[1]), B(deps=[0])]
ExampleMutual == DepBatch(2, (0 :> {1}) @@ (1 :> {0}))

\* C5: in executeWithDependencies execute() is invoked for a call only after
\* execute() has completed for every one of its dependency indices; for the
\* batch [A, B(0), C(1,0)] the calls start in the order A, B, C.
C5_DependenciesCompleteFirst ==
    /\ \A k \in 1 .. Len(started) :
           \A d \in toolCalls[started[k]].dependencies :
               /\ Finished(d)
               /\ \E m \in 1 .. k - 1 : started[m] = d
    /\ toolCalls = ExampleChain =>
           /\ \A k \in 1 .. Len(started) : started[k] = k - 1
           /\ 2 \in running => (Finished(0) /\ Finished(1))

\* The example batch with the last call C started.
C5_Witness ==
    /\ toolCalls = ExampleChain
    /\ started = <<0, 1, 2>>
    /\ 2 \in running

\* C6: on a batch in which every call lies on a dependency cycle,
\* executeWithDependencies fails with the circular-or-missing-dependency error
\* and invokes the capability for none of the calls.
C6_AllOnCycleFailsAtOnce ==
    (/\ depPc # "idle"
     /\ BatchSize >= 1
     /\ \A i \in DOMAIN toolCalls : OnCycle(toolCalls, i)) =>
        /\ depPc = "threw"
        /\ depError = CircularMessage
        /\ started = <<>>
        /\ running = {}
        /\ capOutcome = NoCalls

\* The mutual dependency [A(deps=[1]), B(deps=[0])] has failed.
C6_Witness ==
    /\ toolCalls = ExampleMutual
    /\ depPc = "threw"

\* C7: executeWithDependencies fails with the circular-or-missing-dependency
\* error exactly when some call is stuck (on, or depending on, a cycle or a
\* missing index); the stuck calls are never executed, and every other call has
\* been executed before the error is raised.
C7_FailsExactlyWhenStuck ==
    /\ \A i \in StuckCalls : TimesStarted(i) = 0
    /\ (depPc = "threw" /\ depError = CircularMessage) =>
           /\ StuckCalls # {}
           /\ \A i \in DOMAIN toolCalls \ StuckCalls : i \in executed
    /\ (depPc \in {"returned", "threw"} /\ StuckCalls # {}) =>
           /\ depPc = "threw"
           /\ depError = CircularMessage

\* C8 as stated: when executeWithDependencies fails with the
\* circular-or-missing-dependency error after some calls have executed, the
\* results of those calls are delivered to the caller.
C8_PartialResultsDelivered ==
    (depPc = "threw" /\ depError = CircularMessage) =>
        \A i \in executed :
            /\ i \in DOMAIN depReturned
            /\ depReturned[i] = depResults[i]

\* C8 as amended: when executeWithDependencies fails with the
\* circular-or-missing-dependency error, the calls executed before it have run
\* on the capability and their results sit in the method's local map, but the
\* caller gets the error alone: nothing is returned.
C8_OnlyTheErrorIsDelivered ==
    (depPc = "threw" /\ depError = CircularMessage) =>
        /\ depReturned = NoCalls
        /\ \A i \in executed :
               /\ Finished(i)
               /\ depResults[i] = capOutcome[i].value

\* A call outside the stuck part was executed, then the batch failed.
C8_Witness ==
    /\ depPc = "threw"
    /\ depError = CircularMessage
    /\ executed # {}

\* C9: in executeWithDependencies a failure of one call (a rejection or an
\* error result) is captured as that call's entry and does not abort the
\* batch: the batch never raises because a call failed, the other calls still
\* run, and the returned array has an entry for every call.
C9_CallFailureDoesNotAbort ==
    /\ depPc = "threw" => depError = CircularMessage
    /\ \A i \in DOMAIN capOutcome :
           CallFailed(capOutcome[i]) => i \in DOMAIN depResults
    /\ depPc = "returned" =>
           \A i \in DOMAIN toolCalls : depReturned[i] # Undefined

(***************************************************************************)
(* Properties of executeSequential, checked under SpecSequential.          *)
(***************************************************************************)
\* C10: executeSequential invokes the capability strictly in input order, one
\* call at a time, and when a call's execution throws it stops: no later call
\* is attempted and the returned array holds the entries of the earlier calls
\* followed by the failure entry of the failing call.
C10_InOrderAndStopsOnThrow ==
    /\ Cardinality(running) <= 1
    /\ \A k \in 1 .. Len(started) :
           /\ started[k] = k - 1
           /\ \A j \in 0 .. k - 2 : Finished(j)
    /\ \A i \in DOMAIN capOutcome :
           capOutcome[i].settled = "rejected" =>
               /\ Len(started) = i + 1
               /\ running = {}
               /\ seqPc = "returned"
               /\ Len(seqReturned) = i + 1
               /\ \A j \in 0 .. i - 1 :
                      seqReturned[j + 1] =
                          [success |-> TRUE, result |-> capOutcome[j].value,
                           tool |-> toolCalls[j].name]
               /\ seqReturned[i + 1] =
                      [success |-> FALSE, error |-> capOutcome[i].reason.message,
                       tool |-> toolCalls[i].name]

\* The second of at least three calls threw, after the first had succeeded.
C10_Witness ==
    /\ seqPc = "returned"
    /\ BatchSize >= 3
    /\ 1 \in DOMAIN capOutcome
    /\ capOutcome[1].settled = "rejected"
    /\ Len(seqReturned) = 2

\* C11: executeSequential treats any failure as fatal: when a call returns a
\* result carrying `error`, no later call of the batch is attempted.
C11_ErrorResultStopsSequence ==
    \A i \in DOMAIN capOutcome :
        (capOutcome[i].settled = "fulfilled" /\ HasError(capOutcome[i].value)) =>
            /\ Len(started) = i + 1
            /\ running = {}
            /\ seqPc = "returned"

(***************************************************************************)
(* Properties of ToolChain, checked under SpecChain.                       *)
(***************************************************************************)
\* The loop has gone past step i: a later step was started, or execute
\* returned.
Passed(i) ==
    \/ chainPc = "returned"
    \/ \E k \in 1 .. Len(started) : started[k] > i

\* What the condition of step i evaluates to on the results gathered before it
\* (the entries of earlier steps never change once the loop is past them).
ConditionFalse(i) ==
    \/ steps[i].condition = "never"
    \/ steps[i].condition = "previousRan" /\ (i - 1) \notin DOMAIN chainResults

\* C12: ToolChain.execute runs the steps strictly in the order they were
\* added; a step whose condition is false on the results so far is skipped:
\* the capability is not invoked for it, the results have no entry for it, it
\* is not a failure, and the following steps still run.
C12_OrderedAndSkipsOnFalseCondition ==
    /\ Cardinality(running) <= 1
    /\ \A k \in 1 .. Len(started) - 1 : started[k] < started[k + 1]
    /\ \A i \in DOMAIN steps :
           Passed(i) =>
               IF ConditionFalse(i)
               THEN /\ TimesStarted(i) = 0
                    /\ i \notin DOMAIN chainResults
                    /\ (chainPc = "threw" /\ "step" \in DOMAIN chainError) =>
                           chainError.step # i + 1
               ELSE /\ TimesStarted(i) = 1
                    /\ i \in DOMAIN chainResults
                    /\ chainResults[i] = capOutcome[i].value
    /\ chainPc = "returned" =>
           chainReturned = MapValues(chainResults, Cardinality(DOMAIN steps))

\* [S1, S2(condition = false), S3] returned with S1 and S3 executed only.
C12_Witness ==
    /\ chainPc = "returned"
    /\ Cardinality(DOMAIN steps) = 3
    /\ steps[1].condition = "never"
    /\ started = <<0, 2>>
    /\ DOMAIN chainResults = {0, 2}
    /\ Len(chainReturned) = 2

\* C13: when a step's result represents a failure, execute aborts at once with
\* a chain-failure error that identifies the failing step (index + 1) and
\* carries its message, and no step after the failing one is run.
C13_FailureAbortsChain ==
    \A i \in DOMAIN capOutcome :
        (capOutcome[i].settled = "fulfilled" /\ HasError(capOutcome[i].value)) =>
            /\ chainPc = "threw"
            /\ chainError = [text |-> "Chain failed at step", step |-> i + 1,
                             error |-> FailureMessage(steps[i])]
            /\ running = {}
            /\ \A k \in 1 .. Len(started) : started[k] <= i

\* The second of three unconditional steps failed: the chain threw and the third
\* step was never started.
C13_Witness ==
    /\ chainPc = "threw"
    /\ Cardinality(DOMAIN steps) = 3
    /\ \A i \in DOMAIN steps : steps[i].condition = "none"
    /\ 1 \in DOMAIN capOutcome
    /\ capOutcome[1].settled = "fulfilled"
    /\ HasError(capOutcome[1].value)
    /\ started = <<0, 1>>

(***************************************************************************)
(* Properties of Task and TaskManager, checked under SpecTasks.            *)
(***************************************************************************)
\* How often id occurs in the insertion order.
Occurrences(order, id) == Cardinality({k \in 1 .. Len(order) : order[k] = id})

\* C14: addTask with an explicit id that already exists leaves the task
\* collection unchanged: the existing task is not replaced and the insertion
\* order contains the id only once.  (An addTask step that leaves nextId alone
\* is one with an explicit id.)
C14_ExplicitDuplicateLeavesTasksUnchanged ==
    [][(lastCall' = "addTask" /\ nextId' = nextId) =>
           \A id \in DOMAIN tasks :
               /\ id \in DOMAIN tasks'
               /\ tasks'[id] = tasks[id]
               /\ Occurrences(taskOrder', id) = Occurrences(taskOrder, id)]_vars

\* C15: addTask without an explicit id generates an id that is not the id of
\* any task currently in the manager.  (An addTask step that advances nextId is
\* one without an explicit id, and its id is generated from the old nextId.)
C15_GeneratedIdIsFresh ==
    [][(lastCall' = "addTask" /\ nextId' # nextId) =>
           GeneratedId(nextId) \notin DOMAIN tasks]_vars

\* The state machine of a Task.
Transitions ==
    {<<TaskStatus.PENDING, TaskStatus.IN_PROGRESS>>,
     <<TaskStatus.IN_PROGRESS, TaskStatus.COMPLETED>>,
     <<TaskStatus.IN_PROGRESS, TaskStatus.FAILED>>,
     <<TaskStatus.PENDING, TaskStatus.BLOCKED>>}

\* C16: every status change made by startTask, completeTask, failTask and
\* updateTaskStatus follows the state machine pending -> in_progress,
\* in_progress -> completed, in_progress -> failed, pending -> blocked; so a
\* completed or failed task never changes status again and no task becomes
\* completed or failed without having been in_progress.
C16_StatusChangesFollowStateMachine ==
    [][lastCall' = "updateTaskStatus" =>
           \A id \in DOMAIN tasks :
               tasks'[id].status # tasks[id].status =>
                   <<tasks[id].status, tasks'[id].status>> \in Transitions]_vars

\* The task with this id is pending and each of its dependencies is the id of a
\* completed task of the manager.
ReadyToRun(id) ==
    /\ tasks[id].status = TaskStatus.PENDING
    /\ \A k \in DOMAIN tasks[id].dependencies :
           /\ tasks[id].dependencies[k] \in DOMAIN tasks
           /\ tasks[tasks[id].dependencies[k]].status = TaskStatus.COMPLETED

\* C17: canExecute(task) is true if and only if the task is pending and every
\* id in its dependencies resolves to a completed task of the same manager; a
\* dependency on an id that no task has makes it false.
C17_CanExecuteIffPendingAndDependenciesCompleted ==
    \A id \in DOMAIN tasks :
        /\ TaskCanExecute(tasks[id], tasks) <=> ReadyToRun(id)
        /\ (\E k \in DOMAIN tasks[id].dependencies :
                tasks[id].dependencies[k] \notin DOMAIN tasks) =>
               ~TaskCanExecute(tasks[id], tasks)

\* A pending task can execute because its only dependency, A, is completed.
C17_Witness ==
    /\ "A" \in DOMAIN tasks
    /\ tasks["A"].status = TaskStatus.COMPLETED
    /\ \E id \in DOMAIN tasks :
           /\ tasks[id].status = TaskStatus.PENDING
           /\ tasks[id].dependencies = <<"A">>
           /\ TaskCanExecute(tasks[id], tasks)

\* C18: getNextExecutableTask returns the first task in insertion order for
\* which canExecute holds and null when there is none; it never returns an
\* in_progress, completed, failed or blocked task.
C18_NextExecutableIsFirstReady ==
    LET next == GetNextExecutableTask(tasks, taskOrder)
        ready == {k \in 1 .. Len(taskOrder) : ReadyToRun(taskOrder[k])}
    IN IF ready = {}
       THEN next = Null
       ELSE /\ next # Null
            /\ next.status = TaskStatus.PENDING
            /\ \E k \in ready :
                   /\ next = tasks[taskOrder[k]]
                   /\ \A j \in ready : k <= j

\* With A and B(deps = [A]): A was returned first (it alone was ready), and now
\* that A is completed, B is returned.
C18_Witness ==
    /\ taskOrder = <<"A", "task_1">>
    /\ tasks["A"].status = TaskStatus.COMPLETED
    /\ tasks["task_1"].dependencies = <<"A">>
    /\ GetNextExecutableTask(tasks, taskOrder) = tasks["task_1"]

\* The number of tasks of the manager that are in this status.
TasksIn(status) == Cardinality({id \in DOMAIN tasks : tasks[id].status = status})

\* C19: getProgress returns total = the number of tasks, per-status counts equal
\* to the number of tasks in each status (so the five counts sum to total), and
\* percentage = round(100 * completed / total), or 0 when there are no tasks.
C19_ProgressCountsTheTasks ==
    LET progress == GetProgress(tasks, taskOrder)
        total == Cardinality(DOMAIN tasks)
    IN /\ progress.total = total
       /\ progress.completed = TasksIn(TaskStatus.COMPLETED)
       /\ progress.inProgress = TasksIn(TaskStatus.IN_PROGRESS)
       /\ progress.failed = TasksIn(TaskStatus.FAILED)
       /\ progress.blocked = TasksIn(TaskStatus.BLOCKED)
       /\ progress.pending = TasksIn(TaskStatus.PENDING)
       /\ progress.completed + progress.inProgress + progress.failed
              + progress.blocked + progress.pending = progress.total
       /\ IF total = 0 THEN progress.percentage = 0
          ELSE /\ 2 * total * progress.percentage <= 200 * progress.completed + total
               /\ 200 * progress.completed + total < 2 * total * (progress.percentage + 1)

(***************************************************************************)
(* Properties of ShellSession and ShellManager, checked under SpecShell.   *)
(***************************************************************************)
\* The resolved absolute path of a cd target issued while the session's cwd was
\* previousCwd: the target made absolute ("~" is the home directory, a relative
\* target is taken from previousCwd) and normalised.
ResolvedTarget(previousCwd, target) ==
    CASE target.kind = "relative" -> Normalize(previousCwd \o target.segments)
      [] target.kind = "home" -> Normalize(HomeDirectory \o target.segments)
      [] OTHER -> Normalize(target.segments)

\* The cd that settled last succeeded.
CdSucceeded == lastCd.call # 0 /\ lastCd.returned.exitCode = 0

\* The stdout the last cd delivered: the stdout of the value execute resolved
\* with, the stdout chunk executeStreaming passed to onData.
DeliveredStdout ==
    IF lastCd.via = "execute" THEN lastCd.returned.stdout
    ELSE lastCd.chunks[1].data

\* Every command issued on a session after a successful cd was spawned with the
\* cwd that cd established.
CommandsRunWhereCdLeftThem ==
    \A k \in DOMAIN spawned :
        spawned[k].after # <<>> => spawned[k].cwd = spawned[k].after[1]

\* C20 (as stated): after a successful `cd <dir>` through execute or
\* executeStreaming the session's cwd equals the resolved absolute path of
\* <dir>, the call delivers that path as stdout with exit code 0, and every
\* command issued afterwards on the session runs in that directory until the
\* next successful cd.
C20_CwdIsResolvedAbsolutePath ==
    /\ CdSucceeded =>
           LET resolved == ResolvedTarget(lastCd.previousCwd, lastCd.target)
           IN /\ sessions[lastCd.session].cwd = resolved
              /\ DeliveredStdout = [path |-> resolved]
    /\ CommandsRunWhereCdLeftThem

\* C20 (amended): after a successful `cd <dir>` the session's cwd is a path of
\* the directory <dir> resolves to: the normalised path.resolve(previous cwd,
\* <dir>) for a relative target, and the target exactly as written (after the
\* ~ expansion, not normalised) for an absolute one.  execute resolves with
\* that cwd as stdout, exit code 0; executeStreaming passes it to onData as one
\* stdout chunk and resolves with exit code 0 and no stdout.  Every command
\* issued afterwards on the session is spawned with that cwd until the next
\* successful cd.
C20_CwdIsTargetAsWrittenOrResolved ==
    /\ CdSucceeded =>
           LET cwd == sessions[lastCd.session].cwd
               target == lastCd.target
           IN /\ cwd = CASE target.kind = "relative" ->
                                Normalize(lastCd.previousCwd \o target.segments)
                         [] target.kind = "home" ->
                                HomeDirectory \o target.segments
                         [] OTHER -> target.segments
              /\ WorkingDirectory(cwd) =
                     ResolvedTarget(lastCd.previousCwd, target)
              /\ DeliveredStdout = [path |-> cwd]
              /\ IF lastCd.via = "execute"
                 THEN lastCd.returned = [stdout |-> [path |-> cwd],
                                         stderr |-> [text |-> ""],
                                         exitCode |-> 0, duration |-> 0]
                 ELSE /\ lastCd.returned = [exitCode |-> 0, duration |-> 0]
                      /\ Len(lastCd.chunks) = 1
                      /\ lastCd.chunks[1].type = "stdout"
    /\ CommandsRunWhereCdLeftThem

\* `cd b` issued in /a succeeded through executeStreaming, and a command issued
\* afterwards on that session ran in /a/b and has exited.
C20_Witness ==
    /\ CdSucceeded
    /\ lastCd.via = "executeStreaming"
    /\ lastCd.target = [kind |-> "relative", segments |-> <<"b">>]
    /\ sessions[lastCd.session].cwd = <<"a", "b">>
    /\ alive = {}
    /\ \E k \in DOMAIN spawned :
           /\ spawned[k].session = lastCd.session
           /\ spawned[k].call > lastCd.call
           /\ spawned[k].cwd = <<"a", "b">>
           /\ WorkingDirectory(spawned[k].cwd) = <<"a", "b">>

\* C21: a `cd` whose target does not exist or is not a directory leaves the
\* session's cwd unchanged and returns a structured failure: exit code 1 and an
\* error message in stderr.
C21_FailedCdIsStructuredFailure ==
    [][(lastCd' # lastCd /\ lastCd'.returned.exitCode # 0) =>
           /\ sessions' = sessions
           /\ lastCd'.returned.exitCode = 1
           /\ "stderr" \in DOMAIN lastCd'.returned
           /\ lastCd'.returned.stderr.text
                  \in {"cd: not a directory", "cd: no such file or directory"}]_vars

\* the background subprocesses launched so far
BackgroundLaunches == {k \in DOMAIN spawned : spawned[k].background}

\* C22: execute with background = true returns right after launch (exitCode
\* null, background true, a process identifier), whether or not the subprocess
\* has exited: while a background subprocess is still running, the call that
\* launched it has already resolved with that value.
C22_BackgroundCallResolvesAtLaunch ==
    \A k \in BackgroundLaunches :
        /\ spawned[k].call \in DOMAIN settled
        /\ settled[spawned[k].call].state = "resolved"
        /\ settled[spawned[k].call].value.background
        /\ settled[spawned[k].call].value.exitCode = Null

\* the chunks of `chunks` written to `stream`, in arrival order
OfStream(chunks, stream) == SelectSeq(chunks, LAMBDA chunk : chunk.stream = stream)

\* C23: a background launch registers one record in its session; while it is
\* registered, the record's stdout and stderr are the chunks its process has
\* written, in arrival order, completed is true exactly when that process has
\* exited, exitCode is set from then on, and only a kill removes the record.
C23_RecordFollowsItsProcess ==
    /\ \A k \in BackgroundLaunches :
           (SessionLives(k) /\ k \notin signals) =>
               \E processId \in DOMAIN sessions[spawned[k].session].backgroundProcesses :
                   sessions[spawned[k].session].backgroundProcesses[processId].process = k
    /\ \A id \in DOMAIN sessions :
           \A processId \in DOMAIN sessions[id].backgroundProcesses :
               LET record == sessions[id].backgroundProcesses[processId]
               IN /\ record.stdout = OfStream(emitted[record.process], "stdout")
                  /\ record.stderr = OfStream(emitted[record.process], "stderr")
                  /\ record.completed <=> record.process \notin alive
                  /\ record.completed <=> record.exitCode # Null

\* C24: killBackgroundProcess with an id that is not registered in the session
\* (never registered, or already removed) returns false, throws nothing, leaves
\* the sessions and their registries unchanged and signals no process.
C24_KillOfUnregisteredIdFails ==
    [][(/\ registryOps' # registryOps
        /\ lastOp'.op = "killBackgroundProcess"
        /\ lastOp'.processId \notin DOMAIN sessions[lastOp'.id].backgroundProcesses)
           => /\ lastOp'.returned = FALSE
              /\ ~lastOp'.threw
              /\ sessions' = sessions
              /\ signals' = signals]_vars

\* A kill of an id that was removed by an earlier kill has just returned false
\* while another record is registered in that session.
C24_Witness ==
    /\ lastOp.n > 0
    /\ lastOp.op = "killBackgroundProcess"
    /\ lastOp.returned = FALSE
    /\ signals # {}
    /\ DOMAIN sessions[lastOp.id].backgroundProcesses # {}
    /\ lastOp.processId \notin DOMAIN sessions[lastOp.id].backgroundProcesses

\* the background-process registry of every session
Registries(map) == [id \in DOMAIN map |-> map[id].backgroundProcesses]

\* C25: killBackgroundProcess on a registered id signals the record's process,
\* removes the record and returns true; the record is removed once: output and
\* exit events of a killed process that arrive afterwards re-create no record
\* and change no other record.
C25_KillRemovesRecordOnce ==
    [][/\ (/\ registryOps' # registryOps
           /\ lastOp'.op = "killBackgroundProcess"
           /\ lastOp'.processId \in DOMAIN sessions[lastOp'.id].backgroundProcesses)
              => LET registry == sessions[lastOp'.id].backgroundProcesses
                 IN /\ lastOp'.returned = TRUE
                    /\ signals' = signals \cup {registry[lastOp'.processId].process}
                    /\ sessions'[lastOp'.id].backgroundProcesses =
                           DeleteKey(registry, lastOp'.processId)
       /\ \A k \in signals :
              (emitted'[k] # emitted[k] \/ (k \in alive /\ k \notin alive'))
                  => Registries(sessions') = Registries(sessions)]_vars

\* C26: after any sequence of getSession, execute and deleteSession calls the
\* default session exists and is the session object the manager was constructed
\* with; getSession with an empty id returns that session, and deleteSession on
\* the default id throws and changes nothing.
C26_DefaultSessionAlwaysExists ==
    [][/\ DefaultSessionId \in DOMAIN sessions'
       /\ sessions'[DefaultSessionId].object = 1
       /\ (/\ registryOps' # registryOps
           /\ lastOp'.op = "getSession"
           /\ lastOp'.id = "")
              => /\ lastOp'.returned = sessions'[DefaultSessionId]
                 /\ sessions' = sessions
       /\ (/\ registryOps' # registryOps
           /\ lastOp'.op = "deleteSession"
           /\ lastOp'.id = DefaultSessionId)
              => /\ lastOp'.threw
                 /\ sessions' = sessions
                 /\ signals' = signals]_vars

\* deleteSession on the default id has just thrown while the default session
\* had a background process registered and a second session existed.
C26_Witness ==
    /\ lastOp.n > 0
    /\ lastOp.op = "deleteSession"
    /\ lastOp.id = DefaultSessionId
    /\ lastOp.threw
    /\ "work" \in DOMAIN sessions
    /\ DOMAIN sessions[DefaultSessionId].backgroundProcesses # {}

HasErrorChunk(stream) == \E n \in DOMAIN stream.chunks : stream.chunks[n].type = "error"

\* C28: executeStreaming passes an error chunk to onData only when the
\* subprocess could not be started or was still running when its timeout
\* elapsed, so a command that exits before the timeout gets none; and no chunk
\* is passed once the call has settled.
C28_ErrorChunkOnlyOnSpawnErrorOrTimeout ==
    [][\A c \in DOMAIN streams :
           /\ HasErrorChunk(streams'[c]) =>
                  \/ streams'[c].phase \in {"spawnFailed", "errored"}
                  \/ streams'[c].signalled
           /\ streams'[c].chunks # streams[c].chunks =>
                  streams[c].call \notin DOMAIN settled]_vars

\* C29: Session.execute and Session.executeStreaming never reject: every call
\* that has settled was resolved with a result that carries an exit code.
C29_CallsResolveWithStructuredResult ==
    \A call \in DOMAIN settled :
        /\ settled[call].state = "resolved"
        /\ "exitCode" \in DOMAIN settled[call].value

C31_OptionsCwdOverridesSessionCwd ==
    \A k \in DOMAIN spawned :
        ("optionsCwd" \in DOMAIN spawned[k] /\ spawned[k].optionsCwd # <<>>)
            => spawned[k].cwd = spawned[k].optionsCwd[1]

\* the sessions the calls and events of a step belong to: the session of a
\* call made, of a cd that settled, of a subprocess that wrote or exited, and
\* the session a kill was called on
Touched ==
    {spawned'[k].session : k \in DOMAIN spawned' \ DOMAIN spawned}
        \cup {cd.session : cd \in (pendingCd' \ pendingCd) \cup (pendingCd \ pendingCd')}
        \cup {spawned[k].session : k \in alive \ alive'}
        \cup {spawned[k].session : k \in {j \in DOMAIN emitted : emitted'[j] # emitted[j]}}
        \cup (IF registryOps' # registryOps THEN {lastOp'.id} ELSE {})

\* C32: cd, execute, executeStreaming, a background launch and a kill on one
\* session, and the events of the subprocesses of that session, leave every
\* other session (cwd, history, background-process registry) unchanged.
C32_CallsChangeOnlyTheirSession ==
    [][\A id \in DOMAIN sessions :
           (id \notin DOMAIN sessions' \/ sessions'[id] # sessions[id])
               => id \in Touched]_vars

\* Two sessions differ in cwd and registry: a cd on "work" moved it to /a/b,
\* while the default session stayed in /a and has a background process
\* registered.
C32_Witness ==
    /\ "work" \in DOMAIN sessions
    /\ sessions["work"].cwd = <<"a", "b">>
    /\ sessions[DefaultSessionId].cwd = <<"a">>
    /\ DOMAIN sessions[DefaultSessionId].backgroundProcesses # {}
    /\ DOMAIN sessions["work"].backgroundProcesses = {}
    /\ sessions[DefaultSessionId].history = <<>>

\* C33: exporting and importing again is a round trip: in every state of the
\* task manager, fromJSON(toJSON()) yields the same tasks in the same order,
\* with the same id, description, activeForm, status, dependencies, metadata,
\* result and error.
C33_ExportImportRoundTrip ==
    LET imported == ImportFrom(Manager(NoTasks, <<>>, nextId),
                               ToJSON(tasks, taskOrder), 1)
    IN  /\ imported.taskOrder = taskOrder
        /\ imported.tasks = tasks

\* C34: executeParallel invokes the capability exactly once for every call of
\* the batch and returns only after every invocation has finished, with an
\* entry for every call; and when every invocation terminates, it returns.
C34_RunsEveryCallOnceAndReturns ==
    /\ [](\A i \in DOMAIN toolCalls : TimesStarted(i) <= 1)
    /\ [](parPc = "returned" =>
              /\ running = {}
              /\ queue = <<>>
              /\ \A i \in DOMAIN toolCalls :
                     /\ TimesStarted(i) = 1
                     /\ i \in DOMAIN capOutcome
                     /\ parReturned[i] # EmptySlot)
    /\ (parPc = "awaitInitial" ~> parPc = "returned")

\* A batch of four calls has returned under cap 2, every call having run.
C34_Witness ==
    /\ parPc = "returned"
    /\ maxConcurrent = 2
    /\ Len(started) = 4
    /\ DOMAIN capOutcome = 0 .. 3

\* C35: executeWithDependencies invokes the capability at most once per call,
\* launches at most N rounds for a batch of N calls, and, when every invocation
\* terminates, ends: either it returns one result per call, the i-th being the
\* result of call i, or it raises the circular-or-missing-dependency error.
C35_EndsWithinNRounds ==
    /\ [](\A i \in DOMAIN toolCalls : TimesStarted(i) <= 1)
    /\ [](rounds <= BatchSize)
    /\ [](depPc = "returned" =>
              \A i \in DOMAIN toolCalls :
                  /\ i \in DOMAIN capOutcome
                  /\ depReturned[i] = capOutcome[i].value)
    /\ [](depPc = "threw" => depError = CircularMessage)
    /\ (depPc = "awaitBatch" ~> depPc \in {"returned", "threw"})

\* C36: in executeWithDependencies a call is ready when its dependencies have
\* been executed, whatever they returned: a fulfilled result carrying `error`
\* or `cancelled` marks its call as executed, a round that is launched holds
\* every call not yet run whose dependencies all have a recorded result, and a
\* returned batch has run every call, those with failed dependencies included.
C36_ReadyWhenDependenciesExecuted ==
    /\ \A i \in DOMAIN depResults : i \in executed
    /\ (depPc = "awaitBatch" /\ running = batch) =>
           \A i \in DOMAIN toolCalls :
               (/\ i \notin DOMAIN depResults
                /\ \A d \in toolCalls[i].dependencies : d \in DOMAIN depResults)
                   => i \in batch
    /\ depPc = "returned" => \A i \in DOMAIN toolCalls : TimesStarted(i) = 1

\* Call 1 depends on call 0, call 0 returned {error}, call 2 depends on call 1,
\* call 1 returned {cancelled}, and both dependants ran in later rounds.
C36_Witness ==
    /\ depPc = "returned"
    /\ BatchSize = 3
    /\ toolCalls[1].dependencies = {0}
    /\ toolCalls[2].dependencies = {1}
    /\ "error" \in DOMAIN depResults[0]
    /\ "cancelled" \in DOMAIN depResults[1]
    /\ started = <<0, 1, 2>>
    /\ rounds = 3

\* The tasks whose status is in_progress.
InProgress == {id \in DOMAIN tasks : tasks[id].status = TaskStatus.IN_PROGRESS}

\* C37: AgentPlanner.executeParallel starts a task only when every task it
\* depends on exists and is completed (and was itself started earlier), starts
\* no task twice, and never has more than maxConcurrent tasks in_progress;
\* without the option maxConcurrent is 3.
C37_StartsRespectDependenciesAndLimit ==
    /\ \A k \in 1 .. Len(plannerStarted) :
           LET task == tasks[plannerStarted[k]]
           IN  /\ \A j \in 1 .. Len(task.dependencies) :
                      /\ task.dependencies[j] \in DOMAIN tasks
                      /\ tasks[task.dependencies[j]].status = TaskStatus.COMPLETED
                      /\ \E m \in 1 .. k - 1 : plannerStarted[m] = task.dependencies[j]
               /\ \A m \in 1 .. Len(plannerStarted) :
                      plannerStarted[m] = plannerStarted[k] => m = k
    /\ Cardinality(InProgress) <= plannerMax
    /\ plannerMax \in (1 .. MaxPlanConcurrent) \cup {DefaultPlannerConcurrent}

\* With maxConcurrent 2 two tasks are in progress, a third could execute and
\* waits, and one of the two running depends on a task that ran before.
C37_Witness ==
    /\ plannerMax = 2
    /\ Cardinality(InProgress) = 2
    /\ \E id \in DOMAIN tasks : TaskCanExecute(tasks[id], tasks)
    /\ Len(plannerStarted) >= 2

\* The tasks `id` depends on directly or through at most n other tasks.
RECURSIVE DependsOn(_, _)
DependsOn(id, n) ==
    IF n = 0 \/ id \notin DOMAIN tasks THEN {}
    ELSE LET direct == {tasks[id].dependencies[j] : j \in 1 .. Len(tasks[id].dependencies)}
         IN  direct \cup UNION {DependsOn(d, n - 1) : d \in direct}

\* C38: when AgentPlanner.executeParallel returns, no pending task is left
\* whose dependencies are all completed, every task that was started has ended
\* completed or failed, and a task that depends directly or transitively on a
\* failed task was never started and is still pending.
C38_NothingExecutableLeftAtReturn ==
    plannerPc = "returned" =>
        \A id \in DOMAIN tasks :
            /\ ~TaskCanExecute(tasks[id], tasks)
            /\ (\E k \in 1 .. Len(plannerStarted) : plannerStarted[k] = id) =>
                   tasks[id].status \in {TaskStatus.COMPLETED, TaskStatus.FAILED}
            /\ (\E d \in DependsOn(id, Len(taskOrder)) :
                    d \in DOMAIN tasks /\ tasks[d].status = TaskStatus.FAILED) =>
                   /\ tasks[id].status = TaskStatus.PENDING
                   /\ \A k \in 1 .. Len(plannerStarted) : plannerStarted[k] # id

\* executeParallel returned after task_1 was run and failed; task_2 depends on
\* task_1 and task_3 on task_2, and both were left pending.
C38_Witness ==
    /\ plannerPc = "returned"
    /\ plannerStarted = <<"task_1">>
    /\ tasks["task_1"].status = TaskStatus.FAILED
    /\ Len(taskOrder) = 3
    /\ tasks["task_2"].dependencies = <<"task_1">>
    /\ tasks["task_3"].dependencies = <<"task_2">>
    /\ tasks["task_3"].status = TaskStatus.PENDING
    /\ plannerProgress.pending = 2

\* C39: every background launch on a session is registered under a process id
\* that is not registered in that session at the time of the launch, so the
\* launch adds a record to the session and replaces none.
C39_LaunchGetsFreshProcessId ==
    [][\A k \in DOMAIN spawned' \ DOMAIN spawned :
           (spawned'[k].background /\ spawned'[k].session \in DOMAIN sessions) =>
               LET before == sessions[spawned'[k].session].backgroundProcesses
                   after == sessions'[spawned'[k].session].backgroundProcesses
               IN  /\ spawned'[k].processId \notin DOMAIN before
                   /\ \A processId \in DOMAIN before :
                          /\ processId \in DOMAIN after
                          /\ after[processId].process = before[processId].process]_vars

\* C40: ToolChain.execute calls the onResult of a step exactly once for every
\* step that was executed and delivered a result, with that result and the
\* results recorded up to and including the step, the failing step included;
\* it is never called for a skipped step or for a step after the failing one.
C40_OnResultOncePerExecutedStep ==
    /\ \A i \in DOMAIN chainResults :
           steps[i].onResult =>
               \E k \in DOMAIN onResultCalls : onResultCalls[k].index = i
    /\ \A k \in DOMAIN onResultCalls :
           LET call == onResultCalls[k]
           IN  /\ call.index \in DOMAIN chainResults
               /\ steps[call.index].onResult
               /\ call.index \notin chainSkipped
               /\ call.result = chainResults[call.index]
               /\ DOMAIN call.results = {j \in DOMAIN chainResults : j <= call.index}
               /\ \A j \in DOMAIN call.results : call.results[j] = chainResults[j]
               /\ \A j \in DOMAIN chainResults :
                      j < call.index => ~HasError(chainResults[j])
               /\ \A m \in DOMAIN onResultCalls :
                      onResultCalls[m].index = call.index => m = k

\* A chain of three steps with onResult: the first delivered a result, the
\* second was skipped, the third failed and aborted the chain after its
\* onResult had been called.
C40_Witness ==
    /\ chainPc = "threw"
    /\ DOMAIN steps = 0 .. 2
    /\ \A i \in DOMAIN steps : steps[i].onResult
    /\ chainSkipped = {1}
    /\ Len(onResultCalls) = 2
    /\ onResultCalls[2].index = 2
    /\ HasError(onResultCalls[2].result)
    /\ chainError = ChainFailedMessage(2, chainResults[2])

====
